---- MODULE Spec2Model ----
(***************************************************************************)
(* Concurrency primitives of nonstd_arch.h: the ticket mutex, the once     *)
(* barrier and the lock free index ring, each as a state machine whose     *)
(* steps are the atomic operations of the C code.                          *)
(*                                                                         *)
(* A uint32_t is kept as its two 16-bit halves [hi, lo], so that the       *)
(* arithmetic modulo 2^32 (carries from the low half into the high half,   *)
(* wrap of the high half) is the code's.  The __atomic operations on one   *)
(* word are single steps, totally ordered, and a load returns the latest   *)
(* value stored.  The variables marked "history" record what has happened  *)
(* and are never read by the program's steps.                              *)
(***************************************************************************)
EXTENDS Integers, Naturals, Sequences, FiniteSets, TLC

\* ------------------------------------------------------------------ bounds

\* number of threads contending for the ticket mutex
NLockThreads == 3
\* total number of ticket_mutex_lock calls in a run
MaxLocks == 4
\* number of threads racing once_enter
NOnceThreads == 3
\* number of once_enter calls per thread
MaxOnceCalls == 2
\* largest capacity exponent of the index ring
MaxExp == 2
\* total number of queue_push_commit calls in a run
MaxPush == 4
\* queue_push calls of the producer that races with queue_mpop consumers
MaxRacePush == 3
\* number of consumer threads of the index ring
NConsumers == 2
\* number of threads using the semaphore
NSemThreads == 3
\* total number of semaphore_post calls in a run
MaxPosts == 2
\* total number of semaphore_wait calls in a run
MaxWaits == 2
\* largest small initial value of the semaphore
MaxSemInit == 2
\* threads using the blocking queue
NBQThreads == 2
\* blocking_queue_push / blocking_queue_pop calls in one behaviour
MaxBQOps == 3
\* values the producers of the test push in total, and its consumers pop
MaxRep == 2
\* largest reservation of the arena, counted in allocations
ArenaUnits == 1
\* number of threads sharing the arena, at most NLockThreads
NArenaThreads == 2

\* ------------------------------------------------------------ uint32_t

Half == 65536

U32(h, l) == [hi |-> h, lo |-> l]

U32Zero == U32(0, 0)

\* mutant: the increment saturates at 0xFFFFFFFF instead of wrapping to 0
U32IncSaturating(x) ==
    IF x.lo = Half - 1
    THEN (IF x.hi = Half - 1 THEN x ELSE U32(x.hi + 1, 0))
    ELSE U32(x.hi, x.lo + 1)

\* x + 1 modulo 2^32
U32Inc(x) ==
    IF x.lo = Half - 1
    THEN U32((x.hi + 1) % Half, 0)
    ELSE U32(x.hi, x.lo + 1)

\* x + 0x10000 modulo 2^32
U32AddHigh(x) == U32((x.hi + 1) % Half, x.lo)

\* x - 1 modulo 2^32
U32Dec(x) ==
    IF x.lo = 0
    THEN U32((x.hi + Half - 1) % Half, Half - 1)
    ELSE U32(x.hi, x.lo - 1)

\* x < y, unsigned
U32Less(x, y) == x.hi < y.hi \/ (x.hi = y.hi /\ x.lo < y.lo)

\* the uint32_t with value n, 0 <= n < 2^16
U32Of(n) == U32(0, n)

\* x - y as an integer, for x and y less than 2^17 apart
U32Diff(x, y) == (x.hi - y.hi) * Half + (x.lo - y.lo)

\* x - y modulo 2^32, as unsigned arithmetic in C computes it
U32Sub(x, y) ==
    U32((x.hi + Half - y.hi - (IF x.lo < y.lo THEN 1 ELSE 0)) % Half,
        (x.lo + Half - y.lo) % Half)

\* INT32_MAX converted to uint32_t, 0x7FFFFFFF
INT32_MAX == U32(32767, 65535)

VARIABLES
    \* TicketMutex
    ticket, serving,
    lpc,          \* per thread: "idle", "spin" (after the fetch_add), "held"
    my_ticket,    \* per thread: the local my_ticket
    issued,       \* history: threads in the order of their fetch_add
    acquired,     \* history: threads in the order they returned from lock
    \* once barrier
    b,
    opc,          \* per thread: "idle", "load", "cas", "wait", "init"
    ocalls,       \* per thread: once_enter calls made
    oret,         \* per thread: result of the last once_enter, -1 before
    nTrue,        \* history: once_enter calls that returned 1
    nFalse,       \* history: once_enter calls that returned 0
    nInit,        \* history: runs of the guarded initialization block
    committed,    \* history: once_commit has stored 2
    begunDone,    \* history, per thread: b was 2 when the current call began
    waited,       \* history, per thread: the current call entered the wait loop
    \* index ring (lock free queue)
    q,            \* the ring word: lo = head half, hi = tail half
    exp,          \* the capacity exponent passed to every call
    ppc,          \* producer: "idle", "loaded" (inside queue_push), "full"
                  \* (queue_push returned -1), "reserved" (it returned an index)
    p_r,          \* producer: the local r of queue_push
    pret,         \* producer: result of the last queue_push, -1 for full
    cpc,          \* per consumer: "idle", "popped", "mpopped"
    csave,        \* per consumer: *save of queue_mpop
    cret,         \* per consumer: result of the last queue_pop / queue_mpop
    pushed,       \* history: indices in the order of queue_push_commit
    popped,       \* history: indices in the order of their pop commit
    pocc,         \* history: committed and unpopped items at the load of queue_push
    freed,        \* history: a pop commit came after the last push commit
    pfreed,       \* history: the value of freed at the load of queue_push
    pafterfull,   \* history: the queue_push call before the last one returned -1
    pwrites,      \* history: stores the producer made to the ring word
    cseen,        \* history, per consumer: Len(popped) and pwrites at its last
                  \* queue_mpop, and what its last queue_mpop_commit returned
    \* semaphore
    sem,          \* the counter word
    spc,          \* per thread: "idle", "cas" and "futex" (inside semaphore_wait),
                  \* "asleep" (inside futex_wait), "crit" (semaphore_wait
                  \* returned), "wake" (inside semaphore_post, before the wake)
    sv,           \* per thread: the local v of semaphore_wait / semaphore_post,
                  \* 0 outside the calls
    strap,        \* the assertion of semaphore_post failed: the process is dead
    sem0,         \* history: the initial value of the counter
    nPost,        \* history: increments done by semaphore_post
    nWaitRet,     \* history: semaphore_wait calls that returned
    callPosts,    \* history, per thread: nPost at the call of the current
                  \* semaphore_wait if the counter was 0 then, else -1
    solo,         \* history, per thread: the counter was positive at the call of
                  \* the current semaphore_wait and no other thread has been
                  \* inside a semaphore call since
    futexed,      \* history, per thread: the current semaphore_wait called futex_wait
    splat,        \* the platform the header was compiled for: "futex" (Linux,
                  \* OpenBSD, FreeBSD, Windows) or "spin" (unsupported platform)
    \* blocking queue
    bq,           \* the BlockingConcurrentQueue: exp, producer_slots,
                  \* consumer_slots, access_semaphore, q
    bfn,          \* per thread: "idle", the function it is inside ("push",
                  \* "push_commit", "pop", "pop_commit"), or "push_held" /
                  \* "pop_held" between an operation and its commit
    bstmt,        \* per thread: the statement of that function it is at, 1..3
    bsub,         \* per thread: where inside the statement: "cas", "futex",
                  \* "asleep" (semaphore_wait), "load", "ret" (queue_push,
                  \* queue_pop), "add", "wake" (semaphore_post)
    bv,           \* per thread: the local v of semaphore_wait / semaphore_post,
                  \* the local r of queue_push, 0 where none of them is live
    bret,         \* per thread: the index its last push / pop returned
    btrap,        \* "none", or the assertion that failed: "full", "empty", "overflow"
    bops,         \* history: blocking_queue_push / blocking_queue_pop calls made
    bpushes,      \* history: blocking_queue_push calls made
    published,    \* history, per index: blocking_queue_push_commit was called
                  \* after the last blocking_queue_push that returned the index
    slots,        \* the array the indices refer to (slots[] of test_bqueue):
                  \* per index the value <<producer, number>> last written,
                  \* <<0, 0>> before the first write
    bseq,         \* per thread: values it has produced so far
    bio,          \* per thread: it has written / read the slot it holds
    bcommitted,   \* history: values in the order of their blocking_queue_push_commit
    bread,        \* history: values in the order they were read by consumers
    \* arena (its mtx is the TicketMutex above)
    a_mem,        \* a->mem is not null
    a_reservation, a_committed, a_used,   \* counted in allocations
    oom_handler,  \* a->oom_handler is not null
    afn,          \* per thread: the arena operation it is inside: "none",
                  \* "allocate", "rollback", "clear", "destroy"
    astep,        \* per thread, once it holds the mutex: "body", "copied"
                  \* (arena_destroy has copied a->mtx), "unlock"
    aarg,         \* per thread: checkpoint of arena_rollback, reclaim of arena_clear
    a_m,          \* per thread: the local m of arena_destroy
    ajumped,      \* per thread: allocate_named_ has left through longjmp
    adead         \* die() has terminated the process

lockVars == <<ticket, serving, lpc, my_ticket, issued, acquired>>
onceVars == <<b, opc, ocalls, oret, nTrue, nFalse, nInit, committed, begunDone, waited>>
ringHist == <<pwrites, cseen>>
ringVars == <<q, exp, ppc, p_r, pret, cpc, csave, cret, pushed, popped,
              pocc, freed, pfreed, pafterfull, ringHist>>
semVars == <<sem, spc, sv, strap, sem0, nPost, nWaitRet, callPosts, solo, futexed, splat>>
bqData == <<slots, bseq, bio, bcommitted, bread, bpushes>>
bqVars == <<bq, bfn, bstmt, bsub, bv, bret, btrap, bops, published, bqData>>
arenaVars == <<a_mem, a_reservation, a_committed, a_used, oom_handler, afn, astep,
               aarg, a_m, ajumped, adead>>
vars == <<lockVars, onceVars, ringVars, semVars, bqVars, arenaVars>>

\* ============================================================ TicketMutex

LockThreads == 1 .. NLockThreads

\* a zero-initialized mutex, and one whose counters are about to wrap
\* (ticket = serving = 0xFFFFFFFE, as after that many lock/unlock pairs)
LockStarts == {U32Zero, U32(Half - 1, Half - 2)}

\* a mutex nobody holds, both counters at s
LockAt(s) ==
    /\ ticket = s
    /\ serving = s
    /\ lpc = [t \in LockThreads |-> "idle"]
    /\ my_ticket = [t \in LockThreads |-> U32Zero]
    /\ issued = <<>>
    /\ acquired = <<>>

LockInit == \E s \in LockStarts : LockAt(s)

\* mutant: the increment of `ticket` is lost (a load and a store in place of
\* the atomic fetch_add), so the next caller draws the same ticket
ticket_mutex_lock_lost_add(t) ==
    /\ lpc[t] = "idle"
    /\ Len(issued) < MaxLocks
    /\ my_ticket' = [my_ticket EXCEPT ![t] = ticket]
    /\ lpc' = [lpc EXCEPT ![t] = "spin"]
    /\ issued' = Append(issued, t)
    /\ UNCHANGED <<ticket, serving, acquired>>

\* uint32_t my_ticket = __atomic_fetch_add(&m->ticket, 1, __ATOMIC_RELAXED);
ticket_mutex_lock_fetch_add(t) ==
    /\ lpc[t] = "idle"
    /\ Len(issued) < MaxLocks
    /\ my_ticket' = [my_ticket EXCEPT ![t] = ticket]
    /\ ticket' = U32Inc(ticket)
    /\ lpc' = [lpc EXCEPT ![t] = "spin"]
    /\ issued' = Append(issued, t)
    /\ UNCHANGED <<serving, acquired>>

\* mutant: the loop compares my_ticket with `ticket` instead of `serving`
ticket_mutex_lock_spin_on_ticket(t) ==
    /\ lpc[t] = "spin"
    /\ IF my_ticket[t] # ticket
       THEN UNCHANGED <<lpc, acquired>>
       ELSE /\ lpc' = [lpc EXCEPT ![t] = "held"]
            /\ acquired' = Append(acquired, t)
    /\ UNCHANGED <<ticket, serving, my_ticket, issued>>

\* while (my_ticket != __atomic_load_n(&m->serving, __ATOMIC_ACQUIRE)) SPIN_LOOP_HINT();
ticket_mutex_lock_spin(t) ==
    /\ lpc[t] = "spin"
    /\ IF my_ticket[t] # serving
       THEN UNCHANGED <<lpc, acquired>>
       ELSE /\ lpc' = [lpc EXCEPT ![t] = "held"]
            /\ acquired' = Append(acquired, t)
    /\ UNCHANGED <<ticket, serving, my_ticket, issued>>

\* mutant: unlock advances `serving` by two
ticket_mutex_unlock_by_two(t) ==
    /\ lpc[t] = "held"
    /\ serving' = U32Inc(U32Inc(serving))
    /\ lpc' = [lpc EXCEPT ![t] = "idle"]
    /\ UNCHANGED <<ticket, my_ticket, issued, acquired>>

\* (void) __atomic_fetch_add(&m->serving, 1, __ATOMIC_RELEASE);
\* called by the holder only
ticket_mutex_unlock(t) ==
    /\ lpc[t] = "held"
    /\ serving' = U32Inc(serving)
    /\ lpc' = [lpc EXCEPT ![t] = "idle"]
    /\ UNCHANGED <<ticket, my_ticket, issued, acquired>>

\* threads between their return from ticket_mutex_lock and their call of
\* ticket_mutex_unlock
LockHolders == {t \in LockThreads : lpc[t] = "held"}

\* threads that have taken a ticket and not yet returned from ticket_mutex_lock
LockWaiters == {t \in LockThreads : lpc[t] = "spin"}

IsPrefix(s, t) ==
    /\ Len(s) <= Len(t)
    /\ \A i \in 1 .. Len(s) : s[i] = t[i]

\* C1: FairLock mutual exclusion: in every reachable state at most one thread
\* has returned from ticket_mutex_lock and not yet called ticket_mutex_unlock.
C1_MutualExclusion == Cardinality(LockHolders) <= 1

\* one thread holds the lock while two others spin on their tickets
C1_Witness ==
    /\ Cardinality(LockHolders) = 1
    /\ Cardinality(LockWaiters) >= 2

\* C2: FairLock FIFO order: the threads return from ticket_mutex_lock in
\* exactly the order in which they completed the fetch_add of `ticket`: the
\* sequence of acquisitions is always a prefix of the sequence of tickets.
C2_FifoOrder == IsPrefix(acquired, issued)

\* three different threads took tickets while the lock was held and then
\* acquired it one after the other
C2_Witness ==
    /\ Len(acquired) >= 3
    /\ Cardinality({acquired[i] : i \in 1 .. 3}) = 3
    /\ \E t \in LockThreads : lpc[t] = "spin" /\ my_ticket[t] # serving

\* C3: FairLock starvation freedom: under fair scheduling, with every holder
\* eventually calling ticket_mutex_unlock, every thread that has taken a
\* ticket in ticket_mutex_lock eventually returns from it.
C3_NoStarvation ==
    \A t \in LockThreads : (lpc[t] = "spin") ~> (lpc[t] = "held")

\* a thread spins on a ticket that is two places behind the one being served
C3_Witness ==
    \E t \in LockThreads :
        /\ lpc[t] = "spin"
        /\ my_ticket[t] = U32Inc(U32Inc(serving))

\* threads that hold the lock or are waiting for it
LockContenders == LockHolders \cup LockWaiters

\* `ticket` has wrapped past 2^32 and `serving` has not yet
LockWrapped == U32Less(ticket, serving)

\* C36: FairLock counter invariant with wrap-around: in every reachable
\* state (ticket - serving) modulo 2^32 equals the number of threads that
\* hold or are waiting for the lock, the waiting threads hold the tickets
\* from serving on (the holder has `serving` itself), and mutual exclusion
\* and FIFO order hold also while `ticket` and `serving` wrap past 2^32.
C36_WrapAround ==
    /\ U32Sub(ticket, serving) = U32Of(Cardinality(LockContenders))
    /\ \A t \in LockContenders :
          U32Less(U32Sub(my_ticket[t], serving), U32Sub(ticket, serving))
    /\ \A t \in LockHolders : my_ticket[t] = serving
    /\ \A t, u \in LockContenders : t # u => my_ticket[t] # my_ticket[u]
    /\ Cardinality(LockHolders) <= 1
    /\ IsPrefix(acquired, issued)

\* `ticket` has wrapped to 1 while `serving` is still 0xFFFFFFFE: one thread
\* holds the lock, two wait with the tickets 0xFFFFFFFF and 0
C36_Witness ==
    /\ LockWrapped
    /\ ticket = U32Of(1)
    /\ serving = U32(Half - 1, Half - 2)
    /\ Cardinality(LockHolders) = 1
    /\ \E t, u \in LockWaiters :
          /\ my_ticket[t] = U32(Half - 1, Half - 1)
          /\ my_ticket[u] = U32Zero

\* ============================================================ once barrier

OnceThreads == 1 .. NOnceThreads

OnceInit ==
    /\ b = 0
    /\ opc = [t \in OnceThreads |-> "idle"]
    /\ ocalls = [t \in OnceThreads |-> 0]
    /\ oret = [t \in OnceThreads |-> -1]
    /\ nTrue = 0
    /\ nFalse = 0
    /\ nInit = 0
    /\ committed = FALSE
    /\ begunDone = [t \in OnceThreads |-> FALSE]
    /\ waited = [t \in OnceThreads |-> FALSE]

\* a thread calls once_enter(&b)
once_enter_call(t) ==
    /\ opc[t] = "idle"
    /\ ocalls[t] < MaxOnceCalls
    /\ opc' = [opc EXCEPT ![t] = "load"]
    /\ ocalls' = [ocalls EXCEPT ![t] = @ + 1]
    /\ begunDone' = [begunDone EXCEPT ![t] = (b = 2)]
    /\ waited' = [waited EXCEPT ![t] = FALSE]
    /\ UNCHANGED <<b, oret, nTrue, nFalse, nInit, committed>>

\* if(2 == __atomic_load_n(b, __ATOMIC_SEQ_CST)) return 0;
once_enter_load(t) ==
    /\ opc[t] = "load"
    /\ IF b = 2
       THEN /\ opc' = [opc EXCEPT ![t] = "idle"]
            /\ oret' = [oret EXCEPT ![t] = 0]
            /\ nFalse' = nFalse + 1
       ELSE /\ opc' = [opc EXCEPT ![t] = "cas"]
            /\ UNCHANGED <<oret, nFalse>>
    /\ UNCHANGED <<b, ocalls, nTrue, nInit, committed, begunDone, waited>>

\* mutant: an unconditional exchange in place of the compare-and-swap
once_enter_exchange(t) ==
    /\ opc[t] = "cas"
    /\ b' = 1
    /\ opc' = [opc EXCEPT ![t] = "init"]
    /\ oret' = [oret EXCEPT ![t] = 1]
    /\ nTrue' = nTrue + 1
    /\ UNCHANGED <<ocalls, nFalse, nInit, committed, begunDone, waited>>

\* int zero = 0;
\* int got_lock = __atomic_compare_exchange_n(b, &zero, 1, 0, SEQ_CST, SEQ_CST);
\* if (got_lock) return 1;
once_enter_cas(t) ==
    /\ opc[t] = "cas"
    /\ IF b = 0
       THEN /\ b' = 1
            /\ opc' = [opc EXCEPT ![t] = "init"]
            /\ oret' = [oret EXCEPT ![t] = 1]
            /\ nTrue' = nTrue + 1
            /\ UNCHANGED waited
       ELSE /\ opc' = [opc EXCEPT ![t] = "wait"]
            /\ waited' = [waited EXCEPT ![t] = TRUE]
            /\ UNCHANGED <<b, oret, nTrue>>
    /\ UNCHANGED <<ocalls, nFalse, nInit, committed, begunDone>>

\* mutant: the loop waits while the barrier is 0 instead of until it is 2
once_enter_wait_nonzero(t) ==
    /\ opc[t] = "wait"
    /\ IF b = 0
       THEN UNCHANGED <<opc, oret, nFalse>>
       ELSE /\ opc' = [opc EXCEPT ![t] = "idle"]
            /\ oret' = [oret EXCEPT ![t] = 0]
            /\ nFalse' = nFalse + 1
    /\ UNCHANGED <<b, ocalls, nTrue, nInit, committed, begunDone, waited>>

\* while (2 != __atomic_load_n(b, __ATOMIC_SEQ_CST)) { SPIN_LOOP_HINT(); };
\* return 0;
once_enter_wait(t) ==
    /\ opc[t] = "wait"
    /\ IF b # 2
       THEN UNCHANGED <<opc, oret, nFalse>>
       ELSE /\ opc' = [opc EXCEPT ![t] = "idle"]
            /\ oret' = [oret EXCEPT ![t] = 0]
            /\ nFalse' = nFalse + 1
    /\ UNCHANGED <<b, ocalls, nTrue, nInit, committed, begunDone, waited>>

\* the block guarded by if (once_enter(&b)): do_initialization_work()
do_initialization_work(t) ==
    /\ opc[t] = "init"
    /\ opc' = [opc EXCEPT ![t] = "commit"]
    /\ nInit' = nInit + 1
    /\ UNCHANGED <<b, ocalls, oret, nTrue, nFalse, committed, begunDone, waited>>

\* mutant: once_commit stores 1 (the value once_enter stores)
once_commit_pending(t) ==
    /\ opc[t] = "commit"
    /\ b' = 1
    /\ committed' = TRUE
    /\ opc' = [opc EXCEPT ![t] = "idle"]
    /\ UNCHANGED <<ocalls, oret, nTrue, nFalse, nInit, begunDone, waited>>

\* mutant: once_commit stores 0, re-arming the barrier
once_commit_rearm(t) ==
    /\ opc[t] = "commit"
    /\ b' = 0
    /\ committed' = TRUE
    /\ opc' = [opc EXCEPT ![t] = "idle"]
    /\ UNCHANGED <<ocalls, oret, nTrue, nFalse, nInit, begunDone, waited>>

\* (void) __atomic_store_n(b, 2, __ATOMIC_SEQ_CST);
\* called by the thread whose once_enter returned 1, after the init work
once_commit(t) ==
    /\ opc[t] = "commit"
    /\ b' = 2
    /\ committed' = TRUE
    /\ opc' = [opc EXCEPT ![t] = "idle"]
    /\ UNCHANGED <<ocalls, oret, nTrue, nFalse, nInit, begunDone, waited>>

\* threads inside once_enter
OnceEntering == {t \in OnceThreads : opc[t] \in {"load", "cas", "wait"}}

\* t's once_enter returns 0 in this step
OnceReturnsFalse(t) ==
    /\ opc[t] \in {"load", "cas", "wait"}
    /\ opc'[t] = "idle"
    /\ oret'[t] = 0

\* C4: OnceBarrier single winner: at most one once_enter call ever returns
\* true and the guarded block runs at most once; as soon as any call has
\* returned, exactly one call has returned true.
C4_SingleWinner ==
    /\ nTrue <= 1
    /\ nInit <= 1
    /\ (nTrue + nFalse > 0) => (nTrue = 1)
    /\ (nFalse > 0) => (nInit = 1)

\* all threads raced, one won, ran the block and committed, and every
\* thread has finished all its calls
C4_Witness ==
    /\ nTrue = 1
    /\ nInit = 1
    /\ nFalse = NOnceThreads * MaxOnceCalls - 1
    /\ \A t \in OnceThreads : opc[t] = "idle"

\* C5: OnceBarrier gate: a once_enter call that returns false returns only
\* when once_commit has already stored DONE.
C5_Gate ==
    [][\A t \in OnceThreads : OnceReturnsFalse(t) => (committed /\ b = 2)]_vars

\* a thread that lost the race and went through the wait loop has returned
\* false, while another loser is still inside once_enter
C5_Witness ==
    \E t, u \in OnceThreads :
        /\ opc[t] = "idle" /\ oret[t] = 0 /\ waited[t]
        /\ opc[u] = "wait"

\* C6: OnceBarrier liveness: under fair scheduling, with the initializer
\* eventually calling once_commit, every once_enter call of another thread
\* eventually returns false; and a call begun after DONE was stored returns
\* false at its first load, without entering the wait loop.
C6_Liveness ==
    /\ \A t \in OnceThreads :
          (t \in OnceEntering /\ nTrue = 1)
              ~> (opc[t] = "idle" /\ oret[t] = 0)
    /\ \A t \in OnceThreads :
          (opc[t] = "load") ~> (opc[t] \in {"idle", "init"})
    /\ [][\A t \in OnceThreads :
            (opc[t] = "load" /\ begunDone[t] /\ opc'[t] # opc[t])
                => (OnceReturnsFalse(t) /\ ~waited'[t])]_vars

\* a thread waits in the loop while the initializer has not yet committed
C6_Witness ==
    \E t, u \in OnceThreads :
        /\ opc[t] = "wait"
        /\ opc[u] = "init"
        /\ \E w \in OnceThreads : opc[w] = "cas"

\* C7: OnceBarrier state monotonicity: the barrier word is always 0, 1 or 2;
\* it changes only 0 -> 1, in the compare-and-swap of once_enter, and
\* 1 -> 2, in once_commit; once 2 it never changes.
C7_Monotonic ==
    /\ [](b \in {0, 1, 2})
    /\ [][b' # b =>
            \/ b = 0 /\ b' = 1 /\ \E t \in OnceThreads :
                                     opc[t] = "cas" /\ opc'[t] = "init"
            \/ b = 1 /\ b' = 2 /\ \E t \in OnceThreads :
                                     opc[t] = "commit" /\ opc'[t] = "idle"]_vars
    /\ [][b = 2 => b' = 2]_vars

\* the barrier is DONE and a later call has gone through once_enter again
C7_Witness ==
    /\ b = 2
    /\ \E t \in OnceThreads : ocalls[t] = 2 /\ opc[t] = "idle" /\ begunDone[t]


\* ============================================================ index ring

Consumers == 1 .. NConsumers

\* the one consumer of single-producer/single-consumer use
TheConsumer == 1

\* 1u << exp
Capacity(e) == 2 ^ e

\* r & mask, with mask = (1u << exp) - 1
QHead(r, e) == r.lo % Capacity(e)

\* r>>16 & mask
QTail(r, e) == r.hi % Capacity(e)

\* mutant: next is not masked
QNextUnmasked(r, e) == QHead(r, e) + 1

\* (head + 1u) & mask
QNext(r, e) == (QHead(r, e) + 1) % Capacity(e)

\* r & 0x8000
QOverflowBit(r) == (r.lo \div 32768) % 2 = 1

\* mutant: bit 0x8000 is left alone
QClearBitNever(x) == x

\* x & ~0x8000
QClearBit(x) == IF QOverflowBit(x) THEN U32(x.hi, x.lo - 32768) ELSE x

\* mutant: no test for a full ring
queue_push_result_nofull(r, e) == QHead(r, e)

\* return next == tail ? -1 : head;
queue_push_result(r, e) == IF QNext(r, e) = QTail(r, e) THEN -1 ELSE QHead(r, e)

\* mutant: the head index is returned
queue_pop_result_head(r, e) == IF QHead(r, e) = QTail(r, e) THEN -1 ELSE QHead(r, e)

\* return head == tail ? -1 : tail;
queue_pop_result(r, e) == IF QHead(r, e) = QTail(r, e) THEN -1 ELSE QTail(r, e)

\* ring words of an empty ring after 0, 0x7FFE and 0xFFFE push/pop pairs: the
\* head half is about to reach 0x8000, the tail half about to wrap
RingStarts == {U32Zero, U32(32766, 32766), U32(65534, 32766)}

\* an empty ring with word w and exponent e, nobody inside a call
RingAt(w, e) ==
    /\ q = w
    /\ exp = e
    /\ ppc = "idle"
    /\ p_r = U32Zero
    /\ pret = -1
    /\ cpc = [c \in Consumers |-> "idle"]
    /\ csave = [c \in Consumers |-> U32Zero]
    /\ cret = [c \in Consumers |-> -1]
    /\ pushed = <<>>
    /\ popped = <<>>
    /\ pocc = 0
    /\ freed = FALSE
    /\ pfreed = FALSE
    /\ pafterfull = FALSE
    /\ pwrites = 0
    /\ cseen = [c \in Consumers |-> [pops |-> 0, writes |-> 0, ok |-> TRUE]]

RingInit == \E w \in RingStarts, e \in 1 .. MaxExp : RingAt(w, e)

\* committed and not yet pop-committed items
Occupancy == Len(pushed) - Len(popped)

\* queue_push: uint32_t r = __atomic_load_n(q, __ATOMIC_ACQUIRE);
queue_push_load ==
    /\ ppc \in {"idle", "full"}
    /\ Len(pushed) < MaxPush
    /\ ppc' = "loaded"
    /\ p_r' = q
    /\ pocc' = Occupancy
    /\ pfreed' = freed
    /\ pafterfull' = (ppc = "full")
    /\ UNCHANGED <<q, exp, pret, cpc, csave, cret, pushed, popped, freed, ringHist>>

\* mutant: the and-mask is 0x8000 instead of ~0x8000
queue_push_return_mask ==
    /\ ppc = "loaded"
    /\ q' = IF QOverflowBit(p_r) THEN U32(0, 32768) ELSE q
    /\ pwrites' = IF QOverflowBit(p_r) THEN pwrites + 1 ELSE pwrites
    /\ pret' = queue_push_result(p_r, exp)
    /\ ppc' = IF queue_push_result(p_r, exp) = -1 THEN "full" ELSE "reserved"
    /\ UNCHANGED <<exp, p_r, cpc, csave, cret, pushed, popped, pocc, freed, pfreed,
                   pafterfull, cseen>>

\* queue_push: if (r & 0x8000) __atomic_and_fetch(q, ~0x8000, __ATOMIC_RELEASE);
\*             return next == tail ? -1 : head;
\* the and-fetch comes before the test for a full ring
queue_push_return ==
    /\ ppc = "loaded"
    /\ q' = IF QOverflowBit(p_r) THEN QClearBit(q) ELSE q
    /\ pwrites' = IF QOverflowBit(p_r) THEN pwrites + 1 ELSE pwrites
    /\ pret' = queue_push_result(p_r, exp)
    /\ ppc' = IF queue_push_result(p_r, exp) = -1 THEN "full" ELSE "reserved"
    /\ UNCHANGED <<exp, p_r, cpc, csave, cret, pushed, popped, pocc, freed, pfreed,
                   pafterfull, cseen>>

\* queue_push_commit: __atomic_add_fetch(q, 1, __ATOMIC_RELEASE);
\* called once after each queue_push that returned an index
queue_push_commit ==
    /\ ppc = "reserved"
    /\ q' = U32Inc(q)
    /\ ppc' = "idle"
    /\ pushed' = Append(pushed, pret)
    /\ freed' = FALSE
    /\ pwrites' = pwrites + 1
    /\ UNCHANGED <<exp, p_r, pret, cpc, csave, cret, popped, pocc, pfreed, pafterfull,
                   cseen>>

\* queue_pop: load the word, return head == tail ? -1 : tail
queue_pop(c) ==
    /\ cpc[c] = "idle"
    /\ cret' = [cret EXCEPT ![c] = queue_pop_result(q, exp)]
    /\ cpc' = [cpc EXCEPT ![c] =
                 IF queue_pop_result(q, exp) = -1 THEN "idle" ELSE "popped"]
    /\ UNCHANGED <<q, exp, ppc, p_r, pret, csave, pushed, popped, pocc, freed,
                   pfreed, pafterfull, ringHist>>

\* queue_pop_commit: __atomic_add_fetch(q, 0x10000, __ATOMIC_RELEASE);
queue_pop_commit(c) ==
    /\ cpc[c] = "popped"
    /\ q' = U32AddHigh(q)
    /\ cpc' = [cpc EXCEPT ![c] = "idle"]
    /\ popped' = Append(popped, cret[c])
    /\ freed' = TRUE
    /\ UNCHANGED <<exp, ppc, p_r, pret, csave, cret, pushed, pocc, pfreed, pafterfull,
                   ringHist>>

\* queue_mpop: uint32_t r = *save = load(q); return head == tail ? -1 : tail
queue_mpop(c) ==
    /\ cpc[c] = "idle"
    /\ csave' = [csave EXCEPT ![c] = q]
    /\ cret' = [cret EXCEPT ![c] = queue_pop_result(q, exp)]
    /\ cpc' = [cpc EXCEPT ![c] =
                 IF queue_pop_result(q, exp) = -1 THEN "idle" ELSE "mpopped"]
    /\ cseen' = [cseen EXCEPT ![c] = [pops |-> Len(popped), writes |-> pwrites,
                                      ok |-> cseen[c].ok]]
    /\ UNCHANGED <<q, exp, ppc, p_r, pret, pushed, popped, pocc, freed, pfreed,
                   pafterfull, pwrites>>

\* mutant: the commit adds 0x10000 without comparing the word with *save
queue_mpop_commit_add(c) ==
    /\ cpc[c] = "mpopped"
    /\ cpc' = [cpc EXCEPT ![c] = "idle"]
    /\ q' = U32AddHigh(q)
    /\ popped' = Append(popped, cret[c])
    /\ freed' = TRUE
    /\ cseen' = [cseen EXCEPT ![c].ok = TRUE]
    /\ UNCHANGED <<exp, ppc, p_r, pret, csave, cret, pushed, pocc, pfreed, pafterfull,
                   pwrites>>

\* queue_mpop_commit:
\* return __atomic_compare_exchange_n(q, &save, save+0x10000, 0, RELEASE, RELAXED);
\* on failure the caller retries the whole queue_mpop / queue_mpop_commit pair
queue_mpop_commit(c) ==
    /\ cpc[c] = "mpopped"
    /\ cpc' = [cpc EXCEPT ![c] = "idle"]
    /\ IF q = csave[c]
       THEN /\ q' = U32AddHigh(csave[c])
            /\ popped' = Append(popped, cret[c])
            /\ freed' = TRUE
       ELSE UNCHANGED <<q, popped, freed>>
    /\ cseen' = [cseen EXCEPT ![c].ok = (q = csave[c])]
    /\ UNCHANGED <<exp, ppc, p_r, pret, csave, cret, pushed, pocc, pfreed, pafterfull,
                   pwrites>>

\* the producer is between a queue_push that returned an index and its
\* queue_push_commit
ProducerHolds(i) == ppc = "reserved" /\ pret = i

\* consumer c is between a queue_pop / queue_mpop that returned an index and
\* its commit
ConsumerHolds(c, i) == cpc[c] \in {"popped", "mpopped"} /\ cret[c] = i

\* C8: IndexRing SPSC FIFO: the indices the consumer popped (one per pop
\* commit) are, in order, the indices the producer committed, and at most
\* C-1 committed items are unpopped at any time.
C8_SpscFifo ==
    /\ IsPrefix(popped, pushed)
    /\ Occupancy <= Capacity(exp) - 1

\* on a ring of capacity 4 the consumer has popped three items while the
\* producer holds a reservation, and the head half has gone through 0x8000
C8_Witness ==
    /\ exp = 2
    /\ Len(popped) >= 3
    /\ ppc = "reserved"
    /\ q.hi >= 32768
    /\ q.lo < 32766

\* C9: IndexRing full/not-full boundary: a queue_push returns -1 exactly
\* when C-1 items were committed and not pop-committed at its load, any
\* other result is the head index in 0..C-1, and a queue_push whose load
\* follows a pop commit made since the last push commit returns an index.
C9_FullBoundary ==
    (ppc \in {"full", "reserved"}) =>
        /\ (ppc = "full") <=> (pret = -1)
        /\ (pret = -1) <=> (pocc = Capacity(exp) - 1)
        /\ (pret # -1) => (pret \in 0 .. Capacity(exp) - 1 /\ pret = QHead(p_r, exp))
        /\ pfreed => (pret # -1)

\* on a ring of capacity 4 a queue_push returned -1, the consumer committed
\* one pop, and the next queue_push returned an index
C9_Witness ==
    /\ exp = 2
    /\ ppc = "reserved"
    /\ pafterfull
    /\ pfreed
    /\ pocc = Capacity(exp) - 2

\* C10: IndexRing publication safety: the consumer never holds an index the
\* producer has reserved and not yet published, and the producer never
\* holds an index the consumer has obtained and not yet released; an index
\* the consumer obtains is that of the oldest committed, unpopped item.
C10_PublicationSafety ==
    \A i \in 0 .. Capacity(exp) - 1 :
        ConsumerHolds(TheConsumer, i) =>
            /\ ~ProducerHolds(i)
            /\ Occupancy >= 1
            /\ pushed[Len(popped) + 1] = i

\* the consumer holds an index obtained from queue_mpop while the producer
\* holds a reservation on a ring with one item less than full
C10_Witness ==
    /\ exp = 2
    /\ cpc[TheConsumer] = "mpopped"
    /\ ppc = "reserved"
    /\ Occupancy = Capacity(exp) - 2

\* the queue_push call has just returned -1
PushReturnsFull == ppc = "loaded" /\ ppc' = "full"

\* C25 as stated: a queue_push that returns FULL (-1) leaves the ring word
\* unchanged, for every reachable value of the word, the values with bit
\* 0x8000 set included.
C25_FullLeavesWord == [][PushReturnsFull => q' = q]_vars

\* C25: a queue_push that returns FULL (-1) changes nothing of the ring word
\* but bit 0x8000, which it clears when it was set at the load: the tail
\* half and the low 15 bits of the head half are kept, so are the head and
\* tail indices, and a word without the bit is left unchanged.
C25_FullClearsOnlyBit ==
    [][PushReturnsFull =>
          /\ q'.hi = q.hi
          /\ q'.lo % 32768 = q.lo % 32768
          /\ ~QOverflowBit(q')
          /\ QHead(q', exp) = QHead(q, exp)
          /\ QTail(q', exp) = QTail(q, exp)
          /\ ~QOverflowBit(q) => q' = q]_vars

\* a queue_push returned -1 on a word that had bit 0x8000 set at the load
C25_Witness ==
    /\ ppc = "full"
    /\ QOverflowBit(p_r)
    /\ ~QOverflowBit(q)
    /\ q.hi = p_r.hi

RECURSIVE PrefillWord(_, _)
\* the ring word after m pairs queue_push / queue_push_commit on the word w:
\* each queue_push clears bit 0x8000, each queue_push_commit adds 1
PrefillWord(w, m) ==
    IF m = 0 THEN w ELSE PrefillWord(U32Inc(QClearBit(w)), m - 1)

RECURSIVE PrefillIndices(_, _, _)
\* the indices these m queue_push calls returned, in order
PrefillIndices(w, m, e) ==
    IF m = 0 THEN <<>>
    ELSE <<QHead(w, e)>> \o PrefillIndices(U32Inc(QClearBit(w)), m - 1, e)

\* a ring that started empty at word w and holds m committed items, the
\* producer gone, the consumers about to start
RingPrefilled(w, e, m) ==
    /\ q = PrefillWord(w, m)
    /\ exp = e
    /\ ppc = "idle"
    /\ p_r = U32Zero
    /\ pret = -1
    /\ cpc = [c \in Consumers |-> "idle"]
    /\ csave = [c \in Consumers |-> U32Zero]
    /\ cret = [c \in Consumers |-> -1]
    /\ pushed = PrefillIndices(w, m, e)
    /\ popped = <<>>
    /\ pocc = 0
    /\ freed = FALSE
    /\ pfreed = FALSE
    /\ pafterfull = FALSE
    /\ pwrites = 0
    /\ cseen = [c \in Consumers |-> [pops |-> 0, writes |-> 0, ok |-> TRUE]]

\* M <= N items, as many as the ring can hold
RingInitPrefilled ==
    \E w \in RingStarts, e \in 1 .. MaxExp, m \in 0 .. NConsumers :
        m <= Capacity(e) - 1 /\ RingPrefilled(w, e, m)

\* C11: IndexRing multi-consumer exactly-once: N consumers run the retry
\* loop queue_mpop / queue_mpop_commit on a ring pre-filled with M <= N
\* committed items, no producer: the indices whose commit succeeded are
\* pairwise distinct and are the pre-filled slots in order, never more than
\* M; once M commits have succeeded every queue_mpop returns -1 and every
\* pending commit fails; and under fair scheduling M commits do succeed.
C11_ExactlyOnce ==
    /\ [](IsPrefix(popped, pushed))
    /\ [](\A i, j \in 1 .. Len(popped) : i # j => popped[i] # popped[j])
    /\ [](popped = pushed =>
            /\ queue_pop_result(q, exp) = -1
            /\ \A c \in Consumers : cpc[c] = "mpopped" => csave[c] # q)
    /\ <>[](popped = pushed)

\* both pre-filled items have been popped, across the head half reaching
\* 0x8000, and a consumer still holds the index of a queue_mpop made before
\* the first commit
C11_Witness ==
    /\ Len(pushed) = 2
    /\ popped = pushed
    /\ q.lo = 32768
    /\ \E c \in Consumers : cpc[c] = "mpopped" /\ cret[c] = pushed[1]

\* consumer c's queue_mpop_commit has just returned false / true
MpopCommitFails(c) == cpc[c] = "mpopped" /\ cpc'[c] = "idle" /\ ~cseen'[c].ok

MpopCommitSucceeds(c) == cpc[c] = "mpopped" /\ cpc'[c] = "idle" /\ cseen'[c].ok

\* another consumer has advanced tail since consumer c's last queue_mpop
TailAdvancedSince(c) == Len(popped) > cseen[c].pops

\* the producer has stored to the word since consumer c's last queue_mpop:
\* a queue_push cleared bit 0x8000 or a queue_push_commit advanced head
ProducerStoredSince(c) == pwrites > cseen[c].writes

\* C26 as stated: queue_mpop_commit(saved) returns false only when another
\* consumer has advanced tail since the matching queue_mpop; the activity
\* of a concurrent producer does not make the commit fail.
C26_FailsOnlyOnTail ==
    [][\A c \in Consumers : MpopCommitFails(c) => TailAdvancedSince(c)]_vars

\* C26: queue_mpop_commit(saved) returns false only when the ring word has
\* changed since the matching queue_mpop: another consumer has advanced
\* tail, or a concurrent producer has stored to the word (queue_push
\* clearing the overflow bit, queue_push_commit advancing head); either
\* makes the commit fail, a failed commit changes neither the word nor the
\* popped items, and a successful one advances tail by one.
C26_FailsOnWordChange ==
    [][\A c \in Consumers :
          /\ MpopCommitFails(c) =>
                /\ TailAdvancedSince(c) \/ ProducerStoredSince(c)
                /\ q' = q
                /\ popped' = popped
          /\ MpopCommitSucceeds(c) =>
                /\ ~TailAdvancedSince(c)
                /\ ~ProducerStoredSince(c)
                /\ q' = U32AddHigh(q)
                /\ popped' = Append(popped, cret[c])]_vars

\* a queue_mpop_commit has returned false although no consumer has
\* committed a pop since its queue_mpop: the producer has stored to the word
C26_Witness ==
    \E c \in Consumers :
        /\ cpc[c] = "idle"
        /\ ~cseen[c].ok
        /\ Len(popped) = cseen[c].pops
        /\ ProducerStoredSince(c)

\* head - tail of the two 16-bit halves of the word, unsigned modulo 2^16
CounterDifference == (q.lo + Half - q.hi) % Half

\* head - tail of the two indices, modulo the capacity
IndexDifference == (QHead(q, exp) + Capacity(exp) - QTail(q, exp)) % Capacity(exp)

\* C27 as stated: in every state reachable by a single producer and a
\* single consumer following the reserve/commit protocol, the difference
\* head - tail of the two 16-bit counters stored in the word, computed
\* unsigned modulo 2^16, never exceeds the capacity 2^e.
C27_CounterDifference == CounterDifference <= Capacity(exp)

\* C27: in every state reachable by a single producer and a single consumer
\* following the reserve/commit protocol, the difference head - tail of the
\* two indices (the 16-bit halves masked by the capacity), computed modulo
\* the capacity 2^e, is the number of committed, unpopped items and never
\* exceeds 2^e - 1; the difference of the unmasked halves is congruent to it
\* modulo 2^e.
C27_IndexDifference ==
    /\ IndexDifference = Occupancy
    /\ IndexDifference <= Capacity(exp) - 1
    /\ CounterDifference % Capacity(exp) = IndexDifference

\* the ring of capacity 4 holds two items after queue_push has cleared bit
\* 0x8000 of the head half: the halves differ by more than the capacity
C27_Witness ==
    /\ exp = 2
    /\ Occupancy = 2
    /\ q.lo < 32768
    /\ q.hi >= 32767
    /\ CounterDifference > Capacity(exp)

\* mutant: the exponent 16, where 2^exp is the whole head half and the mask
\* 0xFFFF takes bit 0x8000 in
MaxRingExp16 == CHOOSE e \in 0 .. 16 : 2^e = Half

\* the largest exponent whose mask (1u << exp) - 1 leaves bit 0x8000 of
\* if (r & 0x8000) out of the head index
MaxRingExp == 15

\* an empty ring of any of these exponents
RingInitWide == \E w \in RingStarts, e \in 1 .. MaxRingExp : RingAt(w, e)

\* the index of the k-th item of an ideal ring whose counters are unbounded:
\* the tail half counts the pops modulo 2^16 and the ring started empty, so
\* q.hi - Len(popped) items went through it before the first one here
IdealIndex(k) == (q.hi + Half - Len(popped) + k - 1) % Capacity(exp)

\* queue_push returns in this step: the step that clears bit 0x8000
PushReturns == ppc = "loaded" /\ ppc' # "loaded"

\* C32: overflow-bit clearing is logically invisible: for every capacity
\* exponent 0 < e <= 15 and every ring word the producer and the consumer
\* reach, clearing bit 0x8000 in queue_push changes neither the masked head
\* index nor the masked tail index, and the indices returned by push and by
\* pop are those of an ideal ring with unbounded counters.
C32_ClearingInvisible ==
    /\ [][PushReturns =>
            /\ QHead(q', exp) = QHead(q, exp)
            /\ QTail(q', exp) = QTail(q, exp)]_vars
    /\ [](/\ \A k \in 1 .. Len(pushed) : pushed[k] = IdealIndex(k)
          /\ \A k \in 1 .. Len(popped) : popped[k] = IdealIndex(k)
          /\ ppc = "reserved" => pret = IdealIndex(Len(pushed) + 1)
          /\ cpc[TheConsumer] \in {"popped", "mpopped"} =>
                cret[TheConsumer] = IdealIndex(Len(popped) + 1))

\* on a ring of capacity 2^15 a queue_push has cleared bit 0x8000 and
\* returned index 0, after the item of index 0x7FFF was popped
C32_Witness ==
    /\ exp = 15
    /\ ppc = "reserved"
    /\ QOverflowBit(p_r)
    /\ ~QOverflowBit(q)
    /\ pret = 0
    /\ Len(popped) >= 1
    /\ popped[Len(popped)] = 32767

\* the producer's queue_push_commit runs in this step
PushCommits == ppc = "reserved" /\ ppc' = "idle"

\* the consumer's queue_pop_commit runs in this step
PopCommits == cpc[TheConsumer] = "popped" /\ cpc'[TheConsumer] = "idle"

\* C33: head never carries into tail: when every queue_push_commit follows
\* a queue_push of the producer that returned an index, the low 16-bit half
\* of the ring word never exceeds 0x8000, so the +1 of queue_push_commit
\* adds one to the head half and never changes the tail half; and the
\* +0x10000 of queue_pop_commit, wrapping modulo 2^32, adds one to the tail
\* half modulo 2^16 and never changes the head half.
C33_NoCarry ==
    /\ [](q.lo <= 32768)
    /\ [](ppc = "reserved" => q.lo < 32768)
    /\ [][PushCommits => (q'.hi = q.hi /\ q'.lo = q.lo + 1)]_vars
    /\ [][PopCommits => (q'.lo = q.lo /\ q'.hi = (q.hi + 1) % Half)]_vars

\* the head half stands at 0x8000 and the tail half has wrapped from
\* 0xFFFF to 0 in the queue_pop_commit of the second item
C33_Witness ==
    /\ q.lo = 32768
    /\ q.hi = 0
    /\ Len(popped) = 2
    /\ cpc[TheConsumer] = "idle"

\* ============================================================ semaphore

SemThreads == 1 .. NSemThreads

\* a semaphore with value s0 on platform p, no thread inside a call
SemAtOn(s0, p) ==
    /\ splat = p
    /\ sem = s0
    /\ sem0 = s0
    /\ spc = [t \in SemThreads |-> "idle"]
    /\ sv = [t \in SemThreads |-> U32Zero]
    /\ strap = FALSE
    /\ nPost = 0
    /\ nWaitRet = 0
    /\ callPosts = [t \in SemThreads |-> -1]
    /\ solo = [t \in SemThreads |-> FALSE]
    /\ futexed = [t \in SemThreads |-> FALSE]

\* a semaphore with value s0 on a platform that has futexes
SemAt(s0) == SemAtOn(s0, "futex")

\* small initial values, and the two largest values the counter supports
SemStarts ==
    {U32Of(n) : n \in 0 .. MaxSemInit} \cup {U32Dec(INT32_MAX), INT32_MAX}

SemInit == \E s0 \in SemStarts : SemAt(s0)

\* threads inside semaphore_wait
SemWaiting == {t \in SemThreads : spc[t] \in {"cas", "futex", "asleep"}}

\* threads asleep in futex_wait on the counter
SemSleepers == {t \in SemThreads : spc[t] = "asleep"}

\* threads outside every semaphore call
SemOutside == {t \in SemThreads : spc[t] \in {"idle", "crit"}}

\* mutant: a failed compare-and-swap is retried at once, also with v == 0
SemCasNaive(s, v) ==
    IF s = v
    THEN [sem |-> U32Dec(v), v |-> v, next |-> "ret"]
    ELSE [sem |-> s, v |-> s, next |-> "cas"]

\* mutant: a load and a store of v-1 in place of the compare-and-swap
SemCasStore(s, v) == [sem |-> U32Dec(v), v |-> v, next |-> "ret"]

\* mutant: futex_wait after every failed compare-and-swap
SemCasAlwaysFutex(s, v) ==
    IF s = v
    THEN [sem |-> U32Dec(v), v |-> v, next |-> "ret"]
    ELSE [sem |-> s, v |-> s, next |-> "futex"]

\* one turn of
\*   while(!__atomic_compare_exchange_n(sem, &v, v-1, 0, ACQUIRE, RELAXED)) {
\*       if(v == 0) { futex_wait(sem, v); v = 1; } }
\* on a counter s with the local v: the new counter, the new v, and where the
\* thread goes: "ret" (the loop ends), "cas" (next turn), "futex"
SemCas(s, v) ==
    IF s = v
    THEN [sem |-> U32Dec(v), v |-> v, next |-> "ret"]
    ELSE [sem |-> s, v |-> s, next |-> IF s = U32Zero THEN "futex" ELSE "cas"]

\* futex_wait(f, expected) puts the caller to sleep only if *f == expected
FutexSleeps(s, expected) == s = expected

\* mutant: assert(v <= INT32_MAX)
PostTrapsAbove(v) == ~(U32Less(v, INT32_MAX) \/ v = INT32_MAX)

\* assert(v < INT32_MAX) fails, v the value before the increment
PostTraps(v) == ~U32Less(v, INT32_MAX)

\* mutant: if (v == 0) futex_wake_one(sem);
PostWakesIfZero(v) == v = U32Zero

\* futex_wake_one(sem); is called whatever v was
PostWakes(v) == TRUE

\* a thread calls semaphore_wait(&sem): uint32_t v = 1;
semaphore_wait_call(t) ==
    /\ ~strap
    /\ spc[t] \in {"idle", "crit"}
    /\ nWaitRet + Cardinality(SemWaiting) < MaxWaits
    /\ spc' = [spc EXCEPT ![t] = "cas"]
    /\ sv' = [sv EXCEPT ![t] = U32Of(1)]
    /\ callPosts' = [callPosts EXCEPT ![t] = IF sem = U32Zero THEN nPost ELSE -1]
    /\ solo' = [u \in SemThreads |->
                  IF u = t THEN sem # U32Zero /\ SemOutside = SemThreads ELSE FALSE]
    /\ futexed' = [futexed EXCEPT ![t] = FALSE]
    /\ UNCHANGED <<sem, strap, sem0, nPost, nWaitRet>>
    /\ UNCHANGED splat

\* threads that have been inside semaphore_wait longer than t: the counter
\* started at 0, u called before the first semaphore_post and is still
\* inside, and t called at a positive counter, so after a post
SemLongerWaiting(t) ==
    {u \in SemWaiting \ {t} :
        /\ sem0 = U32Zero
        /\ callPosts[u] = 0
        /\ callPosts[t] = -1
        /\ spc[t] \in {"cas", "futex", "asleep", "crit"}}

\* mutant: a thread whose compare-and-swap would succeed leaves the unit to
\* a thread that has been waiting longer, and goes to futex_wait
semaphore_wait_cas_defer(t) ==
    /\ ~strap
    /\ spc[t] = "cas"
    /\ IF SemLongerWaiting(t) # {} /\ SemCas(sem, sv[t]).next = "ret"
       THEN /\ spc' = [spc EXCEPT ![t] = "futex"]
            /\ UNCHANGED <<sem, sv, nWaitRet>>
       ELSE /\ sem' = SemCas(sem, sv[t]).sem
            /\ sv' = [sv EXCEPT ![t] =
                        IF SemCas(sem, sv[t]).next = "ret" THEN U32Zero
                        ELSE SemCas(sem, sv[t]).v]
            /\ spc' = [spc EXCEPT ![t] =
                         IF SemCas(sem, sv[t]).next = "ret" THEN "crit"
                         ELSE SemCas(sem, sv[t]).next]
            /\ nWaitRet' = IF SemCas(sem, sv[t]).next = "ret"
                           THEN nWaitRet + 1 ELSE nWaitRet
    /\ UNCHANGED <<strap, sem0, nPost, callPosts, solo, futexed>>
    /\ UNCHANGED splat

\* semaphore_wait: one compare-and-swap and the test of v that follows it
semaphore_wait_cas(t) ==
    /\ ~strap
    /\ spc[t] = "cas"
    /\ sem' = SemCas(sem, sv[t]).sem
    /\ sv' = [sv EXCEPT ![t] =
                IF SemCas(sem, sv[t]).next = "ret" THEN U32Zero
                ELSE SemCas(sem, sv[t]).v]
    /\ spc' = [spc EXCEPT ![t] =
                 IF SemCas(sem, sv[t]).next = "ret" THEN "crit"
                 ELSE SemCas(sem, sv[t]).next]
    /\ nWaitRet' = IF SemCas(sem, sv[t]).next = "ret" THEN nWaitRet + 1 ELSE nWaitRet
    /\ UNCHANGED <<strap, sem0, nPost, callPosts, solo, futexed>>
    /\ UNCHANGED splat

\* semaphore_wait: futex_wait(sem, v); the thread sleeps, or the call returns
\* at once because the counter is not v, and then v = 1
semaphore_wait_futex(t) ==
    /\ ~strap
    /\ spc[t] = "futex"
    /\ futexed' = [futexed EXCEPT ![t] = TRUE]
    /\ IF FutexSleeps(sem, sv[t])
       THEN /\ spc' = [spc EXCEPT ![t] = "asleep"]
            /\ UNCHANGED sv
       ELSE /\ spc' = [spc EXCEPT ![t] = "cas"]
            /\ sv' = [sv EXCEPT ![t] = U32Of(1)]
    /\ UNCHANGED <<sem, strap, sem0, nPost, nWaitRet, callPosts, solo>>
    /\ UNCHANGED splat

\* futex_wait returns without a wake (a signal, a spurious wake-up); v = 1
futex_wait_interrupted(t) ==
    /\ ~strap
    /\ spc[t] = "asleep"
    /\ spc' = [spc EXCEPT ![t] = "cas"]
    /\ sv' = [sv EXCEPT ![t] = U32Of(1)]
    /\ UNCHANGED <<sem, strap, sem0, nPost, nWaitRet, callPosts, solo, futexed>>
    /\ UNCHANGED splat

\* semaphore_post: uint32_t v = __atomic_fetch_add(sem, 1, __ATOMIC_RELEASE);
\*                 assert(v < INT32_MAX);
semaphore_post_add(t) ==
    /\ ~strap
    /\ spc[t] \in {"idle", "crit"}
    /\ nPost < MaxPosts
    /\ sem' = U32Inc(sem)
    /\ sv' = [sv EXCEPT ![t] = sem]
    /\ nPost' = nPost + 1
    /\ strap' = PostTraps(sem)
    /\ spc' = [spc EXCEPT ![t] = "wake"]
    /\ solo' = [u \in SemThreads |-> FALSE]
    /\ callPosts' = [callPosts EXCEPT ![t] = -1]
    /\ futexed' = [futexed EXCEPT ![t] = FALSE]
    /\ UNCHANGED <<sem0, nWaitRet>>
    /\ UNCHANGED splat

\* semaphore_post: futex_wake_one(sem); one sleeper, if there is any, wakes
\* up: its futex_wait returns and it sets v = 1
semaphore_post_wake(t) ==
    /\ ~strap
    /\ spc[t] = "wake"
    /\ IF PostWakes(sv[t]) /\ SemSleepers # {}
       THEN \E u \in SemSleepers :
              /\ spc' = [spc EXCEPT ![t] = "idle", ![u] = "cas"]
              /\ sv' = [sv EXCEPT ![t] = U32Zero, ![u] = U32Of(1)]
       ELSE /\ spc' = [spc EXCEPT ![t] = "idle"]
            /\ sv' = [sv EXCEPT ![t] = U32Zero]
    /\ UNCHANGED <<sem, strap, sem0, nPost, nWaitRet, callPosts, solo, futexed>>
    /\ UNCHANGED splat

\* mutant: the loop goes on with the v that the compare-and-swap left
futex_wait_stub_keeps_v(t) ==
    /\ ~strap
    /\ spc[t] = "futex"
    /\ futexed' = [futexed EXCEPT ![t] = TRUE]
    /\ spc' = [spc EXCEPT ![t] = "cas"]
    /\ UNCHANGED <<sem, sv, strap, sem0, nPost, nWaitRet, callPosts, solo, splat>>

\* unsupported platform: futex_wait(sem, v) is SPIN_LOOP_HINT() and returns;
\* then v = 1 and the loop of semaphore_wait goes on
futex_wait_stub(t) ==
    /\ ~strap
    /\ spc[t] = "futex"
    /\ futexed' = [futexed EXCEPT ![t] = TRUE]
    /\ spc' = [spc EXCEPT ![t] = "cas"]
    /\ sv' = [sv EXCEPT ![t] = U32Of(1)]
    /\ UNCHANGED <<sem, strap, sem0, nPost, nWaitRet, callPosts, solo, splat>>

\* unsupported platform: futex_wake_one(sem) does nothing and
\* semaphore_post returns
futex_wake_one_stub(t) ==
    /\ ~strap
    /\ spc[t] = "wake"
    /\ spc' = [spc EXCEPT ![t] = "idle"]
    /\ sv' = [sv EXCEPT ![t] = U32Zero]
    /\ UNCHANGED <<sem, strap, sem0, nPost, nWaitRet, callPosts, solo, futexed, splat>>

\* t's semaphore_wait returns in this step
SemWaitReturns(t) == spc[t] = "cas" /\ spc'[t] = "crit"

\* threads between the return of their semaphore_wait and their next call
SemInCritical == {t \in SemThreads : spc[t] = "crit"}

\* C12: CountingSemaphore conservation: the counter equals its initial
\* value plus the increments done by semaphore_post minus the semaphore_wait
\* calls that have returned, and that number is never negative: the unsigned
\* word never wraps below zero.
C12_Conservation ==
    /\ sem.hi - sem0.hi \in {-1, 0, 1}
    /\ U32Diff(sem, sem0) = nPost - nWaitRet
    /\ sem0.hi = 0 => sem0.lo + nPost - nWaitRet >= 0

\* from 0, two posts and two returned waits, both after a sleep in
\* futex_wait, brought the counter back to 0
C12_Witness ==
    /\ sem0 = U32Zero
    /\ sem = U32Zero
    /\ nPost = 2
    /\ nWaitRet = 2
    /\ \A t \in SemThreads : spc[t] = "crit" => futexed[t]

\* C13: CountingSemaphore blocking: semaphore_wait returns only in a step
\* that decrements a positive counter by one; a call issued when the counter
\* was 0 stays inside semaphore_wait while the counter is 0 and has returned
\* only if a semaphore_post incremented the counter after the call.
C13_Blocking ==
    /\ [][\A t \in SemThreads :
            SemWaitReturns(t) => (sem # U32Zero /\ sem' = U32Dec(sem))]_vars
    /\ [](\A t \in SemThreads :
            (spc[t] = "crit" /\ callPosts[t] >= 0) => nPost > callPosts[t])

\* a semaphore_wait issued at counter 0 slept in futex_wait and returned
\* after a post
C13_Witness ==
    \E t \in SemThreads :
        /\ spc[t] = "crit"
        /\ callPosts[t] >= 0
        /\ futexed[t]
        /\ sem0 = U32Zero

\* C14: CountingSemaphore immediate acquire: a semaphore_wait issued at a
\* positive counter, with no other thread inside a semaphore call from its
\* call on, never calls futex_wait, is never left waiting at a turn of the
\* loop that cannot succeed twice in a row, and returns having decremented
\* the counter by exactly one.
C14_ImmediateAcquire ==
    /\ [](\A t \in SemThreads :
            (solo[t] /\ spc[t] \in {"cas", "futex", "asleep", "crit"}) =>
                /\ ~futexed[t]
                /\ spc[t] \in {"cas", "crit"}
                /\ spc[t] = "cas" => (sem # U32Zero /\ sv[t] \in {U32Of(1), sem}))
    /\ [][\A t \in SemThreads :
            (solo[t] /\ spc[t] = "cas" /\ spc'[t] # "cas") =>
                (spc'[t] = "crit" /\ sem' = U32Dec(sem))]_vars
    /\ [][\A t \in SemThreads :
            (solo[t] /\ solo'[t] /\ spc[t] = "cas" /\ sv[t] = sem) =>
                spc'[t] = "crit"]_vars

\* from counter 0, after two posts and one returned wait, a second wait ran
\* alone and returned
C14_Witness ==
    \E t \in SemThreads :
        /\ sem0 = U32Zero
        /\ nPost = 2
        /\ nWaitRet = 2
        /\ solo[t]
        /\ spc[t] = "crit"

\* C15: CountingSemaphore has no lost wake-up: with futex_wait sleeping
\* only if the counter still equals the expected value and futex_wake_one
\* waking one sleeper, under fair scheduling a state with a positive counter
\* and a thread inside semaphore_wait, asleep in futex_wait or not, leads to
\* a state where the counter is 0 or no thread is inside semaphore_wait, and
\* either takes a semaphore_wait that returns; so no thread stays asleep
\* forever while the counter stays positive (unless semaphore_post trapped).
C15_NoLostWakeup ==
    (SemWaiting # {} /\ sem # U32Zero) ~>
        (SemWaiting = {} \/ sem = U32Zero \/ strap)

\* two threads that slept in futex_wait on a counter of 0 have both
\* returned after two posts
C15_Witness ==
    \E t, u \in SemThreads :
        /\ t # u
        /\ sem0 = U32Zero
        /\ futexed[t] /\ spc[t] = "crit"
        /\ futexed[u] /\ spc[u] = "crit"
        /\ nPost = 2

\* t's semaphore_post does its fetch-and-add in this step
SemPostAdds(t) == spc[t] \in {"idle", "crit"} /\ spc'[t] = "wake"

\* C16: CountingSemaphore overflow is fatal: semaphore_post traps exactly
\* when the counter before its increment is not below INT32_MAX, and while
\* no semaphore_post has trapped the counter is within 0..INT32_MAX.
C16_OverflowFatal ==
    /\ [][\A t \in SemThreads :
            SemPostAdds(t) => (strap' <=> ~U32Less(sem, INT32_MAX))]_vars
    /\ [](~strap => (U32Less(sem, INT32_MAX) \/ sem = INT32_MAX))

\* a post brought the counter from INT32_MAX - 1 to INT32_MAX without a
\* trap, and the next post trapped
C16_Witness ==
    /\ sem0 = U32Dec(INT32_MAX)
    /\ nPost = 2
    /\ nWaitRet = 0
    /\ strap

\* the loop of tfn: semaphore_wait(&sem) is called outside the critical section
tfn_wait(t) == spc[t] = "idle" /\ semaphore_wait_call(t)

\* the loop of tfn: semaphore_post(&sem) ends the critical section
tfn_post(t) == spc[t] = "crit" /\ semaphore_post_add(t)

\* a semaphore initialised to K >= 1 (int32_t sem = 1; in test_sem)
SemInitCS == \E k \in 1 .. MaxSemInit : SemAt(U32Of(k))

\* C17: CountingSemaphore bounds concurrency: with a semaphore initialised
\* to K and threads that each repeat semaphore_wait; critical section;
\* semaphore_post, at most K threads are inside the critical section at once.
C17_BoundedConcurrency ==
    /\ sem0.hi = 0
    /\ Cardinality(SemInCritical) <= sem0.lo

\* K = 1, as in test_sem: one thread is inside the critical section, the
\* counter is 0 and another thread sleeps in futex_wait
C17_Witness ==
    /\ sem0 = U32Of(1)
    /\ Cardinality(SemInCritical) = 1
    /\ sem = U32Zero
    /\ SemSleepers # {}

\* t's compare-and-swap in semaphore_wait runs in this step
SemCasStep(t) ==
    /\ spc[t] = "cas"
    /\ spc'[t] # "cas" \/ sv'[t] # sv[t]

\* C35: CountingSemaphore is unfair: who gets a unit is decided by the
\* counter alone, never by how long a thread has waited. When the
\* compare-and-swap of a thread runs while another thread has been inside
\* semaphore_wait longer, the thread returns exactly if its v equals the
\* counter, and the thread that waited longer stays where it is; so a thread
\* that called later, even one that never slept, acquires a unit before a
\* thread that has waited longer, and no FIFO order among the waiters holds.
C35_Unfair ==
    [][\A t \in SemThreads :
         (SemCasStep(t) /\ SemLongerWaiting(t) # {}) =>
            /\ SemWaitReturns(t) <=> sv[t] = sem
            /\ SemWaitReturns(t) => sem' = U32Dec(sem)
            /\ \A u \in SemLongerWaiting(t) : spc'[u] = spc[u]]_vars

\* the overtaking has happened: u called semaphore_wait at counter 0 before
\* any post, slept, and is still inside; t called after the post, at a
\* positive counter, never went to futex_wait, and has the unit
C35_Witness ==
    \E t \in SemThreads :
        /\ spc[t] = "crit"
        /\ ~futexed[t]
        /\ nWaitRet = 1
        /\ sem = U32Zero
        /\ \E u \in SemLongerWaiting(t) : futexed[u]

\* ============================================================ blocking queue

BQThreads == 1 .. NBQThreads

\* mutant: .producer_slots = (1<<exponent)
BQ_INITIALIZER_ALL_SLOTS(exponent) ==
    [exp |-> exponent, producer_slots |-> U32Of(2 ^ exponent),
     consumer_slots |-> U32Zero, access_semaphore |-> U32Of(1), q |-> U32Zero]

\* mutant: .access_semaphore = 2
BQ_INITIALIZER_TWO_INSIDE(exponent) ==
    [exp |-> exponent, producer_slots |-> U32Of(2 ^ exponent - 1),
     consumer_slots |-> U32Zero, access_semaphore |-> U32Of(2), q |-> U32Zero]

\* (BlockingConcurrentQueue){.exp=exponent,
\*     .producer_slots=((1<<exponent)-1), .access_semaphore=1}
BLOCKING_CONCURRENT_QUEUE_INITIALIZER(exponent) ==
    [exp |-> exponent, producer_slots |-> U32Of(2 ^ exponent - 1),
     consumer_slots |-> U32Zero, access_semaphore |-> U32Of(1), q |-> U32Zero]

\* an initialized queue whose empty ring word has come to w, nobody inside a call
BQAt(w, e) ==
    /\ bq = [BLOCKING_CONCURRENT_QUEUE_INITIALIZER(e) EXCEPT !.q = w]
    /\ bfn = [t \in BQThreads |-> "idle"]
    /\ bstmt = [t \in BQThreads |-> 0]
    /\ bsub = [t \in BQThreads |-> "-"]
    /\ bv = [t \in BQThreads |-> U32Zero]
    /\ bret = [t \in BQThreads |-> -1]
    /\ btrap = "none"
    /\ bops = 0
    /\ published = [i \in 0 .. Capacity(e) - 1 |-> FALSE]
    /\ slots = [i \in 0 .. Capacity(e) - 1 |-> <<0, 0>>]
    /\ bseq = [t \in BQThreads |-> 0]
    /\ bio = [t \in BQThreads |-> FALSE]
    /\ bcommitted = <<>>
    /\ bread = <<>>
    /\ bpushes = 0

BQInit == \E w \in RingStarts, e \in 1 .. MaxExp : BQAt(w, e)

\* mutant: the second semaphore_wait is on the slot semaphore again
BQWaitTargetSlotsOnly(fn, n) ==
    IF fn = "push" THEN "producer_slots" ELSE "consumer_slots"

\* the semaphore that statement n of blocking_queue_push / blocking_queue_pop
\* waits on
BQWaitTarget(fn, n) ==
    IF n = 2 THEN "access_semaphore"
    ELSE IF fn = "push" THEN "producer_slots" ELSE "consumer_slots"

\* mutant: both commits post the slot semaphore of their own side
BQPostTargetOwnSide(fn, n) ==
    IF n = 2 THEN "access_semaphore"
    ELSE IF fn = "push_commit" THEN "producer_slots" ELSE "consumer_slots"

\* the semaphore that statement n of blocking_queue_push_commit /
\* blocking_queue_pop_commit posts
BQPostTarget(fn, n) ==
    IF n = 2 THEN "access_semaphore"
    ELSE IF fn = "push_commit" THEN "consumer_slots" ELSE "producer_slots"

\* threads asleep in futex_wait on the semaphore s
BQSleepers(s) ==
    {t \in BQThreads : bsub[t] = "asleep" /\ BQWaitTarget(bfn[t], bstmt[t]) = s}

\* thread t enters blocking_queue_push (fn = "push") or blocking_queue_pop
\* (fn = "pop"): the first semaphore_wait starts with uint32_t v = 1;
BQEnter(t, fn) ==
    /\ btrap = "none"
    /\ bfn[t] = "idle"
    /\ bfn' = [bfn EXCEPT ![t] = fn]
    /\ bstmt' = [bstmt EXCEPT ![t] = 1]
    /\ bsub' = [bsub EXCEPT ![t] = "cas"]
    /\ bv' = [bv EXCEPT ![t] = U32Of(1)]
    /\ bops' = bops + 1
    /\ bpushes' = IF fn = "push" THEN bpushes + 1 ELSE bpushes
    /\ UNCHANGED <<bq, bret, btrap, published, slots, bseq, bio, bcommitted, bread>>

\* a thread calls blocking_queue_push or blocking_queue_pop, whichever it likes
blocking_queue_call(t, fn) ==
    /\ bops < MaxBQOps
    /\ BQEnter(t, fn)

\* the threads of test_bqueue that run pfn, and those that run cfn
BQProducers == {t \in BQThreads : t % 2 = 1}
BQConsumers == {t \in BQThreads : t % 2 = 0}

\* pfn: int k = blocking_queue_push(&q); the producers push MaxRep values
pfn_call(t) ==
    /\ t \in BQProducers
    /\ bpushes < MaxRep
    /\ BQEnter(t, "push")

\* cfn: int k = blocking_queue_pop(&q); the consumers pop as many values
cfn_call(t) ==
    /\ t \in BQConsumers
    /\ bops - bpushes < MaxRep
    /\ BQEnter(t, "pop")

\* one turn of the loop of the semaphore_wait of statement 1 or 2; when it
\* returns the thread is at the next statement
blocking_queue_wait_cas(t) ==
    /\ btrap = "none"
    /\ bfn[t] \in {"push", "pop"}
    /\ bsub[t] = "cas"
    /\ LET s == BQWaitTarget(bfn[t], bstmt[t])
           r == SemCas(bq[s], bv[t])
       IN  /\ bq' = [bq EXCEPT ![s] = r.sem]
           /\ IF r.next = "ret"
              THEN /\ bstmt' = [bstmt EXCEPT ![t] = bstmt[t] + 1]
                   /\ bsub' = [bsub EXCEPT ![t] = IF bstmt[t] = 1 THEN "cas" ELSE "load"]
                   /\ bv' = [bv EXCEPT ![t] = IF bstmt[t] = 1 THEN U32Of(1) ELSE U32Zero]
              ELSE /\ bsub' = [bsub EXCEPT ![t] = r.next]
                   /\ bv' = [bv EXCEPT ![t] = r.v]
                   /\ UNCHANGED bstmt
    /\ UNCHANGED <<bfn, bret, btrap, bops, published>>
    /\ UNCHANGED bqData

\* if(v == 0) { futex_wait(sem, v); v = 1; }
blocking_queue_wait_futex(t) ==
    /\ btrap = "none"
    /\ bfn[t] \in {"push", "pop"}
    /\ bsub[t] = "futex"
    /\ IF FutexSleeps(bq[BQWaitTarget(bfn[t], bstmt[t])], bv[t])
       THEN bsub' = [bsub EXCEPT ![t] = "asleep"] /\ UNCHANGED bv
       ELSE /\ bsub' = [bsub EXCEPT ![t] = "cas"]
            /\ bv' = [bv EXCEPT ![t] = U32Of(1)]
    /\ UNCHANGED <<bq, bfn, bstmt, bret, btrap, bops, published>>
    /\ UNCHANGED bqData

\* futex_wait returns without a wake
blocking_queue_futex_interrupted(t) ==
    /\ btrap = "none"
    /\ bsub[t] = "asleep"
    /\ bsub' = [bsub EXCEPT ![t] = "cas"]
    /\ bv' = [bv EXCEPT ![t] = U32Of(1)]
    /\ UNCHANGED <<bq, bfn, bstmt, bret, btrap, bops, published>>
    /\ UNCHANGED bqData

\* int i = queue_push(&q->q, q->exp): the load of the ring word
blocking_queue_push_load(t) ==
    /\ btrap = "none"
    /\ bfn[t] = "push"
    /\ bsub[t] = "load"
    /\ bv' = [bv EXCEPT ![t] = bq.q]
    /\ bsub' = [bsub EXCEPT ![t] = "ret"]
    /\ UNCHANGED <<bq, bfn, bstmt, bret, btrap, bops, published>>
    /\ UNCHANGED bqData

\* queue_push clears bit 0x8000 and returns; assert(i >= 0); return i;
blocking_queue_push_return(t) ==
    /\ btrap = "none"
    /\ bfn[t] = "push"
    /\ bsub[t] = "ret"
    /\ bq' = [bq EXCEPT !.q = IF QOverflowBit(bv[t]) THEN QClearBit(bq.q) ELSE bq.q]
    /\ LET i == queue_push_result(bv[t], bq.exp)
       IN  IF i >= 0
           THEN /\ bfn' = [bfn EXCEPT ![t] = "push_held"]
                /\ bret' = [bret EXCEPT ![t] = i]
                /\ published' = [published EXCEPT ![i] = FALSE]
                /\ UNCHANGED btrap
           ELSE /\ btrap' = "full"
                /\ UNCHANGED <<bfn, bret, published>>
    /\ bstmt' = [bstmt EXCEPT ![t] = 0]
    /\ bsub' = [bsub EXCEPT ![t] = "-"]
    /\ bv' = [bv EXCEPT ![t] = U32Zero]
    /\ UNCHANGED bops
    /\ UNCHANGED bqData

\* int i = queue_pop(&q->q, q->exp); assert(i >= 0); return i;
blocking_queue_pop_return(t) ==
    /\ btrap = "none"
    /\ bfn[t] = "pop"
    /\ bsub[t] = "load"
    /\ LET i == queue_pop_result(bq.q, bq.exp)
       IN  IF i >= 0
           THEN /\ bfn' = [bfn EXCEPT ![t] = "pop_held"]
                /\ bret' = [bret EXCEPT ![t] = i]
                /\ UNCHANGED btrap
           ELSE /\ btrap' = "empty"
                /\ UNCHANGED <<bfn, bret>>
    /\ bstmt' = [bstmt EXCEPT ![t] = 0]
    /\ bsub' = [bsub EXCEPT ![t] = "-"]
    /\ UNCHANGED <<bq, bv, bops, published>>
    /\ UNCHANGED bqData

\* blocking_queue_push_commit is called: queue_push_commit(&q->q);
blocking_queue_push_commit(t) ==
    /\ btrap = "none"
    /\ bfn[t] = "push_held"
    /\ bio[t]
    /\ bio' = [bio EXCEPT ![t] = FALSE]
    /\ bcommitted' = Append(bcommitted, slots[bret[t]])
    /\ UNCHANGED <<slots, bseq, bread, bpushes>>
    /\ bq' = [bq EXCEPT !.q = U32Inc(bq.q)]
    /\ bfn' = [bfn EXCEPT ![t] = "push_commit"]
    /\ bstmt' = [bstmt EXCEPT ![t] = 2]
    /\ bsub' = [bsub EXCEPT ![t] = "add"]
    /\ published' = [published EXCEPT ![bret[t]] = TRUE]
    /\ UNCHANGED <<bv, bret, btrap, bops>>

\* blocking_queue_pop_commit is called: queue_pop_commit(&q->q);
blocking_queue_pop_commit(t) ==
    /\ btrap = "none"
    /\ bfn[t] = "pop_held"
    /\ bio[t]
    /\ bio' = [bio EXCEPT ![t] = FALSE]
    /\ UNCHANGED <<slots, bseq, bcommitted, bread, bpushes>>
    /\ bq' = [bq EXCEPT !.q = U32AddHigh(bq.q)]
    /\ bfn' = [bfn EXCEPT ![t] = "pop_commit"]
    /\ bstmt' = [bstmt EXCEPT ![t] = 2]
    /\ bsub' = [bsub EXCEPT ![t] = "add"]
    /\ UNCHANGED <<bv, bret, btrap, bops, published>>

\* the semaphore_post of statement 2 or 3 of a commit: the fetch-and-add and
\* assert(v < INT32_MAX)
blocking_queue_post_add(t) ==
    /\ btrap = "none"
    /\ bfn[t] \in {"push_commit", "pop_commit"}
    /\ bsub[t] = "add"
    /\ LET s == BQPostTarget(bfn[t], bstmt[t])
       IN  /\ bq' = [bq EXCEPT ![s] = U32Inc(bq[s])]
           /\ bv' = [bv EXCEPT ![t] = bq[s]]
           /\ btrap' = IF PostTraps(bq[s]) THEN "overflow" ELSE "none"
    /\ bsub' = [bsub EXCEPT ![t] = "wake"]
    /\ UNCHANGED <<bfn, bstmt, bret, bops, published>>
    /\ UNCHANGED bqData

\* futex_wake_one(sem) of that semaphore_post; after statement 3 the commit
\* returns
blocking_queue_post_wake(t) ==
    /\ btrap = "none"
    /\ bfn[t] \in {"push_commit", "pop_commit"}
    /\ bsub[t] = "wake"
    /\ LET s == BQPostTarget(bfn[t], bstmt[t])
           me == IF bstmt[t] = 2 THEN "add" ELSE "-"
       IN  IF PostWakes(bv[t]) /\ BQSleepers(s) # {}
           THEN \E u \in BQSleepers(s) :
                   /\ bsub' = [bsub EXCEPT ![t] = me, ![u] = "cas"]
                   /\ bv' = [bv EXCEPT ![t] = U32Zero, ![u] = U32Of(1)]
           ELSE /\ bsub' = [bsub EXCEPT ![t] = me]
                /\ bv' = [bv EXCEPT ![t] = U32Zero]
    /\ bstmt' = [bstmt EXCEPT ![t] = IF bstmt[t] = 2 THEN 3 ELSE 0]
    /\ bfn' = [bfn EXCEPT ![t] = IF bstmt[t] = 2 THEN bfn[t] ELSE "idle"]
    /\ UNCHANGED <<bq, bret, btrap, bops, published>>
    /\ UNCHANGED bqData

\* pfn: slots[k] = v; between blocking_queue_push and its commit
pfn_write(t) ==
    /\ btrap = "none"
    /\ bfn[t] = "push_held"
    /\ ~bio[t]
    /\ slots' = [slots EXCEPT ![bret[t]] = <<t, bseq[t] + 1>>]
    /\ bseq' = [bseq EXCEPT ![t] = bseq[t] + 1]
    /\ bio' = [bio EXCEPT ![t] = TRUE]
    /\ UNCHANGED <<bq, bfn, bstmt, bsub, bv, bret, btrap, bops, published,
                   bcommitted, bread, bpushes>>

\* cfn: uint32_t v = slots[k]; between blocking_queue_pop and its commit
cfn_read(t) ==
    /\ btrap = "none"
    /\ bfn[t] = "pop_held"
    /\ ~bio[t]
    /\ bread' = Append(bread, slots[bret[t]])
    /\ bio' = [bio EXCEPT ![t] = TRUE]
    /\ UNCHANGED <<bq, bfn, bstmt, bsub, bv, bret, btrap, bops, published,
                   slots, bseq, bcommitted, bpushes>>

\* operations that have decremented their slot semaphore (the semaphore_wait
\* of statement 1 returned) and have not yet posted the opposite one (the
\* fetch-and-add of statement 3 of the commit)
BQInFlight ==
    {t \in BQThreads :
        \/ bfn[t] \in {"push", "pop"} /\ bstmt[t] # 1
        \/ bfn[t] \in {"push_held", "pop_held"}
        \/ bfn[t] \in {"push_commit", "pop_commit"} /\ ~(bstmt[t] = 3 /\ bsub[t] = "wake")}

\* thread t holds the index i: blocking_queue_push or blocking_queue_pop
\* returned it and the matching commit has not been called
BQHolds(t, i) == bfn[t] \in {"push_held", "pop_held"} /\ bret[t] = i

\* C18: BoundedBlockingQueue conservation: in every reachable state of a
\* queue initialised with BLOCKING_CONCURRENT_QUEUE_INITIALIZER(e),
\* producer_slots + consumer_slots + the number of push or pop operations
\* that have decremented their slot semaphore and not yet posted the
\* opposite one equals 2^e - 1.
C18_Conservation ==
    /\ bq.producer_slots.hi = 0
    /\ bq.consumer_slots.hi = 0
    /\ bq.producer_slots.lo + bq.consumer_slots.lo + Cardinality(BQInFlight)
         = 2 ^ bq.exp - 1

\* capacity 4 after two complete pushes: one free slot, one filled slot and
\* a pop in flight that holds its index
C18_Witness ==
    /\ bq.exp = 2
    /\ bq.producer_slots = U32Of(1)
    /\ bq.consumer_slots = U32Of(1)
    /\ \E t \in BQThreads : bfn[t] = "pop_held"

\* C19: BoundedBlockingQueue internal consistency: in every interleaving of
\* threads that each follow push -> push_commit and pop -> pop_commit the
\* queue_push inside blocking_queue_push never returns FULL and the
\* queue_pop inside blocking_queue_pop never returns EMPTY: neither
\* assert(i >= 0) fails.
C19_InternalConsistency == btrap \notin {"full", "empty"}

\* the ring of capacity 2 holds its one item, a queue_push would return
\* FULL, and the thread that called blocking_queue_push sleeps on
\* producer_slots
C19_Witness ==
    /\ bq.exp = 1
    /\ QNext(bq.q, bq.exp) = QTail(bq.q, bq.exp)
    /\ bq.consumer_slots = U32Of(1)
    /\ BQSleepers("producer_slots") # {}

\* C20: BoundedBlockingQueue index exclusivity: no two threads hold the same
\* slot index at the same time, and blocking_queue_pop never returns an
\* index whose latest producer has not yet called blocking_queue_push_commit.
C20_IndexExclusivity ==
    /\ \A t, u \in BQThreads, i \in 0 .. Capacity(bq.exp) - 1 :
        (BQHolds(t, i) /\ BQHolds(u, i)) => t = u
    /\ \A t \in BQThreads : bfn[t] = "pop_held" => published[bret[t]]

\* a pop holds the index of a committed item while a push that has its
\* slot sleeps in futex_wait on the access semaphore
C20_Witness ==
    \E t, u \in BQThreads :
        /\ bfn[t] = "pop_held"
        /\ published[bret[t]]
        /\ bfn[u] = "push"
        /\ bstmt[u] = 2
        /\ bsub[u] = "asleep"

\* the values of the sequence s, as a set
SeqToSet(s) == {s[i] : i \in 1 .. Len(s)}

BQFinished(t) ==
    /\ bfn[t] = "idle"
    /\ IF t \in BQProducers THEN bpushes = MaxRep ELSE bops - bpushes = MaxRep

\* thread t is blocked: asleep in futex_wait
BQBlocked(t) == bsub[t] = "asleep"

\* C22: BoundedBlockingQueue deadlock freedom: with producers and consumers
\* that follow every push with push_commit and every pop with pop_commit,
\* as many pops as pushes in total, no reachable state has a blocked thread
\* and every unfinished thread blocked, and under fair scheduling every
\* thread completes all its operations.
C22_DeadlockFree ==
    /\ [](~ /\ \E t \in BQThreads : BQBlocked(t)
            /\ \A t \in BQThreads : BQBlocked(t) \/ BQFinished(t))
    /\ <>[](\A t \in BQThreads : BQFinished(t))

\* the producer sleeps on producer_slots of the full ring of capacity 2
\* while the consumer holds the first value
C22_Witness ==
    /\ bq.exp = 1
    /\ BQSleepers("producer_slots") # {}
    /\ \E t \in BQConsumers : bfn[t] = "pop_held"
    /\ bpushes = 2

\* blocking_queue_push calls whose semaphore_wait on producer_slots returned
BQPushesAdmitted ==
    bpushes - Cardinality({t \in BQThreads : bfn[t] = "push" /\ bstmt[t] = 1})

\* blocking_queue_pop_commit calls made so far: every value read, but those
\* whose reader still holds the slot
BQPopCommits ==
    Len(bread) - Cardinality({t \in BQThreads : bfn[t] = "pop_held" /\ bio[t]})

\* C23: BoundedBlockingQueue usable capacity: for a queue built with
\* exponent e, the blocking_queue_push calls that got past producer_slots
\* exceed the blocking_queue_pop_commit calls made by at most 2^e - 1, so
\* with no consumer the push after 2^e - 1 pairs blocks until a
\* blocking_queue_pop_commit has run, and the committed and not yet popped
\* items never exceed 2^e - 1.
C23_UsableCapacity ==
    /\ BQPushesAdmitted <= 2 ^ bq.exp - 1 + BQPopCommits
    /\ Len(bcommitted) - BQPopCommits <= 2 ^ bq.exp - 1
    /\ \A t \in BQThreads :
        (bfn[t] = "push" /\ bstmt[t] = 1 /\ bq.producer_slots # U32Zero) =>
            BQPushesAdmitted < 2 ^ bq.exp - 1 + BQPopCommits

\* no pop was called, 2^e - 1 push / push_commit pairs are complete and
\* one more blocking_queue_push sleeps on producer_slots
C23_Witness ==
    /\ bops = bpushes
    /\ Len(bcommitted) = 2 ^ bq.exp - 1
    /\ \A t \in BQThreads : bfn[t] \in {"idle", "push"}
    /\ BQSleepers("producer_slots") # {}

\* threads whose semaphore_wait on access_semaphore has returned and whose
\* semaphore_post on it has not yet done its fetch-and-add
BQInsideAccess ==
    {t \in BQThreads :
        \/ bfn[t] \in {"push", "pop"} /\ bstmt[t] = 3
        \/ bfn[t] \in {"push_held", "pop_held"}
        \/ bfn[t] \in {"push_commit", "pop_commit"} /\ bstmt[t] = 2 /\ bsub[t] = "add"}

\* threads between the return of blocking_queue_push / blocking_queue_pop
\* and the call of the matching commit
BQBetweenCalls == {t \in BQThreads : bfn[t] \in {"push_held", "pop_held"}}

\* threads inside queue_push or queue_pop
BQInRingCall == {t \in BQThreads : bfn[t] \in {"push", "pop"} /\ bsub[t] \in {"load", "ret"}}

\* thread t does a ring operation or a step of one: queue_push,
\* queue_push_commit, queue_pop, queue_pop_commit
BQRingStep(t) ==
    \/ t \in BQInRingCall /\ bsub'[t] # bsub[t]
    \/ t \in BQBetweenCalls /\ bfn'[t] \in {"push_commit", "pop_commit"}

\* C30: BoundedBlockingQueue serialization: access_semaphore never exceeds
\* 1, at most one thread at a time is between the return of
\* blocking_queue_push or blocking_queue_pop and its matching commit, and
\* every ring operation (queue_push, queue_push_commit, queue_pop,
\* queue_pop_commit) is done by the one thread that has access_semaphore,
\* so no two ring operations of different threads overlap.
C30_Serialization ==
    /\ [](/\ bq.access_semaphore \in {U32Zero, U32Of(1)}
          /\ Cardinality(BQBetweenCalls) <= 1
          /\ Cardinality(BQInsideAccess) = (IF bq.access_semaphore = U32Zero THEN 1 ELSE 0)
          /\ BQInRingCall \cup BQBetweenCalls \subseteq BQInsideAccess)
    /\ [][\A t \in BQThreads :
            BQRingStep(t) => (BQInsideAccess = {t} /\ bq.access_semaphore = U32Zero)]_vars
    /\ [][bq.q' # bq.q => \E t \in BQThreads : BQRingStep(t)]_vars

\* a thread is inside queue_push while the other one sleeps on
\* access_semaphore, after an earlier push and its commit
C30_Witness ==
    \E t, u \in BQThreads :
        /\ t # u
        /\ bfn[t] = "push"
        /\ bsub[t] = "ret"
        /\ bfn[u] \in {"push", "pop"}
        /\ bstmt[u] = 2
        /\ bsub[u] = "asleep"
        /\ bcommitted # <<>>

\* (head - tail) mod 2^e of the queue's ring word: the items whose
\* queue_push_commit has run and whose queue_pop_commit has not
BQOccupancy ==
    (QHead(bq.q, bq.exp) + Capacity(bq.exp) - QTail(bq.q, bq.exp)) % Capacity(bq.exp)

\* C31: BoundedBlockingQueue semaphores never over-promise: in every
\* reachable state consumer_slots is at most the ring occupancy
\* ((head - tail) mod 2^e, the push-committed and not pop-committed items, as
\* the history of the commits counts them too) and producer_slots is at most
\* 2^e - 1 - the ring occupancy.
C31_NeverOverPromise ==
    /\ BQOccupancy = Len(bcommitted) - BQPopCommits
    /\ bq.consumer_slots.hi = 0
    /\ bq.consumer_slots.lo <= BQOccupancy
    /\ bq.producer_slots.hi = 0
    /\ bq.producer_slots.lo <= 2 ^ bq.exp - 1 - BQOccupancy

\* the ring of capacity 4 holds two items, the second of which is committed
\* but not yet posted to consumer_slots, and producer_slots is down to 0
\* because a third push has been admitted
C31_Witness ==
    /\ bq.exp = 2
    /\ BQOccupancy = 2
    /\ bq.consumer_slots = U32Of(1)
    /\ bq.producer_slots = U32Zero
    /\ \E t \in BQThreads : bfn[t] = "push_commit"

\* the indices tail, tail+1, ..., head-1 modulo 2^e of the queue's ring: the
\* slots whose queue_push_commit has run and whose queue_pop_commit has not
BQOccupied ==
    {(QTail(bq.q, bq.exp) + k) % Capacity(bq.exp) : k \in 0 .. BQOccupancy - 1}

\* the state of payload slot i in the slot cycle
SlotState(i) ==
    IF \E t \in BQThreads : bfn[t] = "push_held" /\ bret[t] = i
        THEN "ReservedByProducer"
    ELSE IF \E t \in BQThreads : bfn[t] = "pop_held" /\ bret[t] = i
        THEN "ReservedByConsumer"
    ELSE IF i \in BQOccupied THEN "Filled"
    ELSE "Free"

\* the steps of the slot cycle
SlotCycle ==
    {<<"Free", "ReservedByProducer">>, <<"ReservedByProducer", "Filled">>,
     <<"Filled", "ReservedByConsumer">>, <<"ReservedByConsumer", "Free">>}

\* the call that makes each step of the cycle: the value bfn takes
SlotCycleCall(from) ==
    CASE from = "Free" -> "push_held"
      [] from = "ReservedByProducer" -> "push_commit"
      [] from = "Filled" -> "pop_held"
      [] from = "ReservedByConsumer" -> "pop_commit"

\* C34: BoundedBlockingQueue slot life cycle: every payload slot index only
\* ever moves through the cycle Free -> ReservedByProducer (returned by
\* blocking_queue_push) -> Filled (after blocking_queue_push_commit) ->
\* ReservedByConsumer (returned by blocking_queue_pop) -> Free (after
\* blocking_queue_pop_commit), each step made by that call; no other
\* transition of a slot's state is reachable, and an index a producer holds
\* is outside the occupied part of the ring while an index a consumer holds
\* is its oldest slot.
C34_SlotLifeCycle ==
    /\ [](\A t \in BQThreads :
            /\ bfn[t] = "push_held" => bret[t] \notin BQOccupied
            /\ bfn[t] = "pop_held" =>
                  (BQOccupancy >= 1 /\ bret[t] = QTail(bq.q, bq.exp)))
    /\ [][\A i \in 0 .. Capacity(bq.exp) - 1 :
            SlotState(i)' # SlotState(i) =>
                /\ <<SlotState(i), SlotState(i)'>> \in SlotCycle
                /\ \E t \in BQThreads :
                      /\ bfn'[t] # bfn[t]
                      /\ bfn'[t] = SlotCycleCall(SlotState(i))
                      /\ bret'[t] = i
                /\ \A j \in 0 .. Capacity(bq.exp) - 1 :
                      j # i => SlotState(j)' = SlotState(j)]_vars

\* a slot that was written and read is free again while a producer holds
\* the next slot
C34_Witness ==
    \E i, j \in 0 .. Capacity(bq.exp) - 1 :
        /\ SlotState(i) = "Free"
        /\ slots[i] # <<0, 0>>
        /\ Len(bread) = 1
        /\ BQPopCommits = 1
        /\ SlotState(j) = "ReservedByProducer"

\* ============================================================ arena

\* the threads that share the arena, among those that use the mutex
ArenaThreads == 1 .. NArenaThreads

\* if(a->reservation == 0) a->reservation = GIGABYTES(20);
\* more than the allocations of one behaviour
GIGABYTES_20 == MaxLocks + 1

\* an arena with reservation r (0 in a zero-initialized arena) and the
\* oom_handler set or not, nobody inside an operation; mtx is zero
ArenaAt(r, h) ==
    /\ a_mem = FALSE
    /\ a_reservation = r
    /\ a_committed = 0
    /\ a_used = 0
    /\ oom_handler = h
    /\ afn = [t \in ArenaThreads |-> "none"]
    /\ astep = [t \in ArenaThreads |-> "body"]
    /\ aarg = [t \in ArenaThreads |-> 0]
    /\ a_m = [t \in ArenaThreads |-> [ticket |-> U32Zero, serving |-> U32Zero]]
    /\ ajumped = [t \in ArenaThreads |-> FALSE]
    /\ adead = FALSE

ArenaInit == \E r \in 0 .. ArenaUnits, h \in BOOLEAN : ArenaAt(r, h)

\* thread t is inside arena operation fn and holds a->mtx, at step st
ArenaAtStep(t, fn, st) ==
    /\ ~adead
    /\ afn[t] = fn
    /\ lpc[t] = "held"
    /\ astep[t] = st

\* a call of allocate_named_, arena_rollback, arena_clear or arena_destroy,
\* up to the fetch_add of ticket_mutex_lock(&a->mtx);
\* arena_rollback: assert(checkpoint <= a->used) before the lock
arena_call(t, fn, arg) ==
    /\ ~adead
    /\ afn[t] = "none"
    /\ ticket_mutex_lock_fetch_add(t)
    /\ afn' = [afn EXCEPT ![t] = fn]
    /\ astep' = [astep EXCEPT ![t] = "body"]
    /\ aarg' = [aarg EXCEPT ![t] = arg]
    /\ UNCHANGED <<a_mem, a_reservation, a_committed, a_used, oom_handler, a_m,
                   ajumped, adead>>

allocate_named_call(t) == arena_call(t, "allocate", 0)

arena_rollback_call(t) == \E checkpoint \in 0 .. a_used : arena_call(t, "rollback", checkpoint)

arena_clear_call(t) == \E reclaim \in 0 .. 1 : arena_call(t, "clear", reclaim)

arena_destroy_call(t) == arena_call(t, "destroy", 0)

\* the spin loop of ticket_mutex_lock(&a->mtx)
arena_lock_spin(t) ==
    /\ ~adead
    /\ afn[t] # "none"
    /\ ticket_mutex_lock_spin(t)
    /\ UNCHANGED arenaVars

\* a->reservation after if(a->reservation == 0) a->reservation = GIGABYTES(20);
ReservationSet == IF a_reservation = 0 THEN GIGABYTES_20 ELSE a_reservation

\* if(a->used + sz > a->reservation)
OutOfMemory == a_used + 1 > ReservationSet

\* allocate_named_, the allocation fits: reserve on first use, commit what is
\* needed, a->used += sz
allocate_named_fits(t) ==
    /\ ArenaAtStep(t, "allocate", "body")
    /\ ~OutOfMemory
    /\ a_reservation' = ReservationSet
    /\ a_mem' = TRUE
    /\ a_committed' = IF a_used + 1 > a_committed THEN a_used + 1 ELSE a_committed
    /\ a_used' = a_used + 1
    /\ astep' = [astep EXCEPT ![t] = "unlock"]
    /\ UNCHANGED <<oom_handler, afn, aarg, a_m, ajumped, adead, lockVars>>

\* allocate_named_: if(a->oom_handler) longjmp(a->oom_handler[0],1);
\* control goes to the setjmp of the caller; a->mtx is not unlocked
allocate_named_longjmp(t) ==
    /\ ArenaAtStep(t, "allocate", "body")
    /\ OutOfMemory
    /\ oom_handler
    /\ a_reservation' = ReservationSet
    /\ a_mem' = TRUE
    /\ afn' = [afn EXCEPT ![t] = "none"]
    /\ ajumped' = [ajumped EXCEPT ![t] = TRUE]
    /\ UNCHANGED <<a_committed, a_used, oom_handler, astep, aarg, a_m, adead, lockVars>>

\* allocate_named_: die("allocate: out of memory (reservation insufficient)");
allocate_named_die(t) ==
    /\ ArenaAtStep(t, "allocate", "body")
    /\ OutOfMemory
    /\ ~oom_handler
    /\ a_reservation' = ReservationSet
    /\ a_mem' = TRUE
    /\ adead' = TRUE
    /\ UNCHANGED <<a_committed, a_used, oom_handler, afn, astep, aarg, a_m, ajumped,
                   lockVars>>

\* arena_rollback: a->used = checkpoint;
arena_rollback_body(t) ==
    /\ ArenaAtStep(t, "rollback", "body")
    /\ a_used' = aarg[t]
    /\ astep' = [astep EXCEPT ![t] = "unlock"]
    /\ UNCHANGED <<a_mem, a_reservation, a_committed, oom_handler, afn, aarg, a_m,
                   ajumped, adead, lockVars>>

\* arena_clear: if (reclaim && a->mem) { decommit; a->committed = 0; } a->used = 0;
arena_clear_body(t) ==
    /\ ArenaAtStep(t, "clear", "body")
    /\ a_committed' = IF aarg[t] = 1 /\ a_mem THEN 0 ELSE a_committed
    /\ a_used' = 0
    /\ astep' = [astep EXCEPT ![t] = "unlock"]
    /\ UNCHANGED <<a_mem, a_reservation, oom_handler, afn, aarg, a_m, ajumped, adead,
                   lockVars>>

\* arena_destroy: decommit and unreserve; TicketMutex m = a->mtx;
arena_destroy_copy(t) ==
    /\ ArenaAtStep(t, "destroy", "body")
    /\ a_m' = [a_m EXCEPT ![t] = [ticket |-> ticket, serving |-> serving]]
    /\ astep' = [astep EXCEPT ![t] = "copied"]
    /\ UNCHANGED <<a_mem, a_reservation, a_committed, a_used, oom_handler, afn, aarg,
                   ajumped, adead, lockVars>>

\* arena_destroy: *a = (Arena) {.mtx = m,};
\* a plain store to the whole struct while other threads may be doing the
\* atomic fetch_add on a->mtx.ticket: the store writes the copy back over
\* mtx, or the build leaves the unchanged member alone
arena_destroy_store(t) ==
    /\ ArenaAtStep(t, "destroy", "copied")
    /\ a_mem' = FALSE
    /\ a_reservation' = 0
    /\ a_committed' = 0
    /\ a_used' = 0
    /\ oom_handler' = FALSE
    /\ \/ ticket' = a_m[t].ticket /\ serving' = a_m[t].serving
       \/ UNCHANGED <<ticket, serving>>
    /\ astep' = [astep EXCEPT ![t] = "unlock"]
    /\ UNCHANGED <<afn, aarg, a_m, ajumped, adead, lpc, my_ticket, issued, acquired>>

\* the ticket_mutex_unlock(&a->mtx) that ends each operation, and its return
arena_unlock(t) ==
    /\ ~adead
    /\ afn[t] # "none"
    /\ astep[t] = "unlock"
    /\ ticket_mutex_unlock(t)
    /\ afn' = [afn EXCEPT ![t] = "none"]
    /\ astep' = [astep EXCEPT ![t] = "body"]
    /\ UNCHANGED <<a_mem, a_reservation, a_committed, a_used, oom_handler, aarg, a_m,
                   ajumped, adead>>

\* threads that have a ticket of a->mtx: spinning on it or holding the mutex
TicketHolders == {t \in ArenaThreads : lpc[t] # "idle"}

\* C28: arena lock discipline: every arena operation that acquires the
\* arena's TicketMutex (allocate_named_, arena_clear, arena_rollback,
\* arena_destroy) has released it when control leaves the operation, on
\* every exit path, the out-of-memory path of allocate_named_ that transfers
\* control to oom_handler included; so the mutex is held only by a thread
\* inside an operation and a later allocate can still acquire it.
C28_LockReleasedOnExit ==
    \A t \in ArenaThreads : afn[t] = "none" => lpc[t] = "idle"

\* C29: arena_destroy preserves the ticket lock: while other threads call
\* ticket_mutex_lock on the arena's mutex during arena_destroy, no ticket is
\* lost (ticket is serving plus the number of threads that have a ticket)
\* or issued twice, at most one thread holds the mutex, and the threads
\* acquire it in the order of their tickets.
C29_DestroyKeepsTickets ==
    /\ U32Diff(ticket, serving) = Cardinality(TicketHolders)
    /\ \A t, u \in TicketHolders : t # u => my_ticket[t] # my_ticket[u]
    /\ Cardinality(LockHolders) <= 1
    /\ IsPrefix(acquired, issued)

\* ============================================================ specifications

InitLock ==
    /\ LockInit
    /\ OnceInit
    /\ RingAt(U32Zero, 1)
    /\ SemAt(U32Zero)
    /\ BQAt(U32Zero, 1)
    /\ ArenaAt(0, FALSE)

NextLock ==
    \/ \E t \in LockThreads : ticket_mutex_lock_fetch_add(t) /\ UNCHANGED <<onceVars, ringVars, semVars, bqVars, arenaVars>>
    \/ \E t \in LockThreads : ticket_mutex_lock_spin(t) /\ UNCHANGED <<onceVars, ringVars, semVars, bqVars, arenaVars>>
    \/ \E t \in LockThreads : ticket_mutex_unlock(t) /\ UNCHANGED <<onceVars, ringVars, semVars, bqVars, arenaVars>>

InitOnce ==
    /\ LockAt(U32Zero)
    /\ OnceInit
    /\ RingAt(U32Zero, 1)
    /\ SemAt(U32Zero)
    /\ BQAt(U32Zero, 1)
    /\ ArenaAt(0, FALSE)

NextOnce ==
    \/ \E t \in OnceThreads : once_enter_call(t) /\ UNCHANGED <<lockVars, ringVars, semVars, bqVars, arenaVars>>
    \/ \E t \in OnceThreads : once_enter_load(t) /\ UNCHANGED <<lockVars, ringVars, semVars, bqVars, arenaVars>>
    \/ \E t \in OnceThreads : once_enter_cas(t) /\ UNCHANGED <<lockVars, ringVars, semVars, bqVars, arenaVars>>
    \/ \E t \in OnceThreads : once_enter_wait(t) /\ UNCHANGED <<lockVars, ringVars, semVars, bqVars, arenaVars>>
    \/ \E t \in OnceThreads : do_initialization_work(t) /\ UNCHANGED <<lockVars, ringVars, semVars, bqVars, arenaVars>>
    \/ \E t \in OnceThreads : once_commit(t) /\ UNCHANGED <<lockVars, ringVars, semVars, bqVars, arenaVars>>

SpecOnce == InitOnce /\ [][NextOnce]_vars

\* fair scheduling of the threads inside once_enter, and the initializer
\* finishes its work and calls once_commit
FairSpecOnce ==
    /\ SpecOnce
    /\ \A t \in OnceThreads :
        /\ WF_vars(once_enter_load(t) /\ UNCHANGED <<lockVars, ringVars, semVars, bqVars, arenaVars>>)
        /\ WF_vars(once_enter_cas(t) /\ UNCHANGED <<lockVars, ringVars, semVars, bqVars, arenaVars>>)
        /\ WF_vars(once_enter_wait(t) /\ UNCHANGED <<lockVars, ringVars, semVars, bqVars, arenaVars>>)
        /\ WF_vars(do_initialization_work(t) /\ UNCHANGED <<lockVars, ringVars, semVars, bqVars, arenaVars>>)
        /\ WF_vars(once_commit(t) /\ UNCHANGED <<lockVars, ringVars, semVars, bqVars, arenaVars>>)

InitRing ==
    /\ LockAt(U32Zero)
    /\ OnceInit
    /\ RingInit
    /\ SemAt(U32Zero)
    /\ BQAt(U32Zero, 1)
    /\ ArenaAt(0, FALSE)

\* one producer and one consumer, which pops with either pair of calls
NextRing ==
    \/ queue_push_load /\ UNCHANGED <<lockVars, onceVars, semVars, bqVars, arenaVars>>
    \/ queue_push_return /\ UNCHANGED <<lockVars, onceVars, semVars, bqVars, arenaVars>>
    \/ queue_push_commit /\ UNCHANGED <<lockVars, onceVars, semVars, bqVars, arenaVars>>
    \/ queue_pop(TheConsumer) /\ UNCHANGED <<lockVars, onceVars, semVars, bqVars, arenaVars>>
    \/ queue_pop_commit(TheConsumer) /\ UNCHANGED <<lockVars, onceVars, semVars, bqVars, arenaVars>>
    \/ queue_mpop(TheConsumer) /\ UNCHANGED <<lockVars, onceVars, semVars, bqVars, arenaVars>>
    \/ queue_mpop_commit(TheConsumer) /\ UNCHANGED <<lockVars, onceVars, semVars, bqVars, arenaVars>>

SpecRing == InitRing /\ [][NextRing]_vars

InitRingWide ==
    /\ LockAt(U32Zero)
    /\ OnceInit
    /\ RingInitWide
    /\ SemAt(U32Zero)
    /\ BQAt(U32Zero, 1)
    /\ ArenaAt(0, FALSE)

\* one producer and one consumer on a ring of any exponent up to 15
SpecRingWide == InitRingWide /\ [][NextRing]_vars

\* one producer and consumers that race with queue_mpop / queue_mpop_commit
NextRingMPop ==
    \/ Len(pushed) < MaxRacePush /\ queue_push_load /\ UNCHANGED <<lockVars, onceVars, semVars, bqVars, arenaVars>>
    \/ queue_push_return /\ UNCHANGED <<lockVars, onceVars, semVars, bqVars, arenaVars>>
    \/ queue_push_commit /\ UNCHANGED <<lockVars, onceVars, semVars, bqVars, arenaVars>>
    \/ \E c \in Consumers : queue_mpop(c) /\ UNCHANGED <<lockVars, onceVars, semVars, bqVars, arenaVars>>
    \/ \E c \in Consumers : queue_mpop_commit(c) /\ UNCHANGED <<lockVars, onceVars, semVars, bqVars, arenaVars>>

SpecRingMPop == InitRing /\ [][NextRingMPop]_vars

InitMPop ==
    /\ LockAt(U32Zero)
    /\ OnceInit
    /\ RingInitPrefilled
    /\ SemAt(U32Zero)
    /\ BQAt(U32Zero, 1)
    /\ ArenaAt(0, FALSE)

NextMPop ==
    \/ \E c \in Consumers : queue_mpop(c) /\ UNCHANGED <<lockVars, onceVars, semVars, bqVars, arenaVars>>
    \/ \E c \in Consumers : queue_mpop_commit(c) /\ UNCHANGED <<lockVars, onceVars, semVars, bqVars, arenaVars>>

\* consumers only, on a pre-filled ring
SpecMPop == InitMPop /\ [][NextMPop]_vars

\* every consumer keeps running its retry loop
FairSpecMPop ==
    /\ SpecMPop
    /\ \A c \in Consumers :
        /\ WF_vars(queue_mpop(c) /\ UNCHANGED <<lockVars, onceVars, semVars, bqVars, arenaVars>>)
        /\ WF_vars(queue_mpop_commit(c) /\ UNCHANGED <<lockVars, onceVars, semVars, bqVars, arenaVars>>)

InitSem ==
    /\ LockAt(U32Zero)
    /\ OnceInit
    /\ RingAt(U32Zero, 1)
    /\ SemInit
    /\ BQAt(U32Zero, 1)
    /\ ArenaAt(0, FALSE)

\* threads that wait and post in any order
NextSem ==
    \/ \E t \in SemThreads : semaphore_wait_call(t) /\ UNCHANGED <<lockVars, onceVars, ringVars, bqVars, arenaVars>>
    \/ \E t \in SemThreads : semaphore_wait_cas(t) /\ UNCHANGED <<lockVars, onceVars, ringVars, bqVars, arenaVars>>
    \/ \E t \in SemThreads : semaphore_wait_futex(t) /\ UNCHANGED <<lockVars, onceVars, ringVars, bqVars, arenaVars>>
    \/ \E t \in SemThreads : futex_wait_interrupted(t) /\ UNCHANGED <<lockVars, onceVars, ringVars, bqVars, arenaVars>>
    \/ \E t \in SemThreads : semaphore_post_add(t) /\ UNCHANGED <<lockVars, onceVars, ringVars, bqVars, arenaVars>>
    \/ \E t \in SemThreads : semaphore_post_wake(t) /\ UNCHANGED <<lockVars, onceVars, ringVars, bqVars, arenaVars>>

SpecSem == InitSem /\ [][NextSem]_vars

InitSemZero ==
    /\ LockAt(U32Zero)
    /\ OnceInit
    /\ RingAt(U32Zero, 1)
    /\ SemAt(U32Zero)
    /\ BQAt(U32Zero, 1)
    /\ ArenaAt(0, FALSE)

\* a counter that starts at 0, with fair scheduling of the threads inside
\* semaphore_wait and semaphore_post; no thread is obliged to call either,
\* and no futex_wait to be interrupted
FairSpecSem ==
    /\ InitSemZero
    /\ [][NextSem]_vars
    /\ \A t \in SemThreads :
        /\ WF_vars(semaphore_wait_cas(t) /\ UNCHANGED <<lockVars, onceVars, ringVars, bqVars, arenaVars>>)
        /\ WF_vars(semaphore_wait_futex(t) /\ UNCHANGED <<lockVars, onceVars, ringVars, bqVars, arenaVars>>)
        /\ WF_vars(semaphore_post_wake(t) /\ UNCHANGED <<lockVars, onceVars, ringVars, bqVars, arenaVars>>)

InitSemCS ==
    /\ LockAt(U32Zero)
    /\ OnceInit
    /\ RingAt(U32Zero, 1)
    /\ SemInitCS
    /\ BQAt(U32Zero, 1)
    /\ ArenaAt(0, FALSE)

NextSemCS ==
    \/ \E t \in SemThreads : tfn_wait(t) /\ UNCHANGED <<lockVars, onceVars, ringVars, bqVars, arenaVars>>
    \/ \E t \in SemThreads : semaphore_wait_cas(t) /\ UNCHANGED <<lockVars, onceVars, ringVars, bqVars, arenaVars>>
    \/ \E t \in SemThreads : semaphore_wait_futex(t) /\ UNCHANGED <<lockVars, onceVars, ringVars, bqVars, arenaVars>>
    \/ \E t \in SemThreads : futex_wait_interrupted(t) /\ UNCHANGED <<lockVars, onceVars, ringVars, bqVars, arenaVars>>
    \/ \E t \in SemThreads : tfn_post(t) /\ UNCHANGED <<lockVars, onceVars, ringVars, bqVars, arenaVars>>
    \/ \E t \in SemThreads : semaphore_post_wake(t) /\ UNCHANGED <<lockVars, onceVars, ringVars, bqVars, arenaVars>>

\* the threads of test_sem: wait, critical section, post, repeated
SpecSemCS == InitSemCS /\ [][NextSemCS]_vars

InitBQ ==
    /\ LockAt(U32Zero)
    /\ OnceInit
    /\ RingAt(U32Zero, 1)
    /\ SemAt(U32Zero)
    /\ BQInit
    /\ ArenaAt(0, FALSE)

NextBQ ==
    \/ \E t \in BQThreads, fn \in {"push", "pop"} : blocking_queue_call(t, fn) /\ UNCHANGED <<lockVars, onceVars, ringVars, semVars, arenaVars>>
    \/ \E t \in BQThreads : blocking_queue_wait_cas(t) /\ UNCHANGED <<lockVars, onceVars, ringVars, semVars, arenaVars>>
    \/ \E t \in BQThreads : blocking_queue_wait_futex(t) /\ UNCHANGED <<lockVars, onceVars, ringVars, semVars, arenaVars>>
    \/ \E t \in BQThreads : blocking_queue_futex_interrupted(t) /\ UNCHANGED <<lockVars, onceVars, ringVars, semVars, arenaVars>>
    \/ \E t \in BQThreads : blocking_queue_push_load(t) /\ UNCHANGED <<lockVars, onceVars, ringVars, semVars, arenaVars>>
    \/ \E t \in BQThreads : blocking_queue_push_return(t) /\ UNCHANGED <<lockVars, onceVars, ringVars, semVars, arenaVars>>
    \/ \E t \in BQThreads : blocking_queue_pop_return(t) /\ UNCHANGED <<lockVars, onceVars, ringVars, semVars, arenaVars>>
    \/ \E t \in BQThreads : pfn_write(t) /\ UNCHANGED <<lockVars, onceVars, ringVars, semVars, arenaVars>>
    \/ \E t \in BQThreads : cfn_read(t) /\ UNCHANGED <<lockVars, onceVars, ringVars, semVars, arenaVars>>
    \/ \E t \in BQThreads : blocking_queue_push_commit(t) /\ UNCHANGED <<lockVars, onceVars, ringVars, semVars, arenaVars>>
    \/ \E t \in BQThreads : blocking_queue_pop_commit(t) /\ UNCHANGED <<lockVars, onceVars, ringVars, semVars, arenaVars>>
    \/ \E t \in BQThreads : blocking_queue_post_add(t) /\ UNCHANGED <<lockVars, onceVars, ringVars, semVars, arenaVars>>
    \/ \E t \in BQThreads : blocking_queue_post_wake(t) /\ UNCHANGED <<lockVars, onceVars, ringVars, semVars, arenaVars>>

\* threads that each do push -> push_commit or pop -> pop_commit, repeatedly
SpecBQ == InitBQ /\ [][NextBQ]_vars

NextBQTest ==
    \/ \E t \in BQThreads : pfn_call(t) /\ UNCHANGED <<lockVars, onceVars, ringVars, semVars, arenaVars>>
    \/ \E t \in BQThreads : cfn_call(t) /\ UNCHANGED <<lockVars, onceVars, ringVars, semVars, arenaVars>>
    \/ \E t \in BQThreads : blocking_queue_wait_cas(t) /\ UNCHANGED <<lockVars, onceVars, ringVars, semVars, arenaVars>>
    \/ \E t \in BQThreads : blocking_queue_wait_futex(t) /\ UNCHANGED <<lockVars, onceVars, ringVars, semVars, arenaVars>>
    \/ \E t \in BQThreads : blocking_queue_futex_interrupted(t) /\ UNCHANGED <<lockVars, onceVars, ringVars, semVars, arenaVars>>
    \/ \E t \in BQThreads : blocking_queue_push_load(t) /\ UNCHANGED <<lockVars, onceVars, ringVars, semVars, arenaVars>>
    \/ \E t \in BQThreads : blocking_queue_push_return(t) /\ UNCHANGED <<lockVars, onceVars, ringVars, semVars, arenaVars>>
    \/ \E t \in BQThreads : blocking_queue_pop_return(t) /\ UNCHANGED <<lockVars, onceVars, ringVars, semVars, arenaVars>>
    \/ \E t \in BQThreads : pfn_write(t) /\ UNCHANGED <<lockVars, onceVars, ringVars, semVars, arenaVars>>
    \/ \E t \in BQThreads : cfn_read(t) /\ UNCHANGED <<lockVars, onceVars, ringVars, semVars, arenaVars>>
    \/ \E t \in BQThreads : blocking_queue_push_commit(t) /\ UNCHANGED <<lockVars, onceVars, ringVars, semVars, arenaVars>>
    \/ \E t \in BQThreads : blocking_queue_pop_commit(t) /\ UNCHANGED <<lockVars, onceVars, ringVars, semVars, arenaVars>>
    \/ \E t \in BQThreads : blocking_queue_post_add(t) /\ UNCHANGED <<lockVars, onceVars, ringVars, semVars, arenaVars>>
    \/ \E t \in BQThreads : blocking_queue_post_wake(t) /\ UNCHANGED <<lockVars, onceVars, ringVars, semVars, arenaVars>>

\* a step thread t takes by itself: any of the above but the return of
\* futex_wait without a wake
BQThreadStep(t) ==
    \/ pfn_call(t)
    \/ cfn_call(t)
    \/ blocking_queue_wait_cas(t)
    \/ blocking_queue_wait_futex(t)
    \/ blocking_queue_push_load(t)
    \/ blocking_queue_push_return(t)
    \/ blocking_queue_pop_return(t)
    \/ pfn_write(t)
    \/ cfn_read(t)
    \/ blocking_queue_push_commit(t)
    \/ blocking_queue_pop_commit(t)
    \/ blocking_queue_post_add(t)
    \/ blocking_queue_post_wake(t)

\* test_bqueue: producers run pfn, consumers run cfn, as many pops as pushes
SpecBQTest == InitBQ /\ [][NextBQTest]_vars

\* test_bqueue with every thread scheduled fairly
FairSpecBQTest ==
    /\ SpecBQTest
    /\ \A t \in BQThreads :
        WF_vars(BQThreadStep(t) /\ UNCHANGED <<lockVars, onceVars, ringVars, semVars, arenaVars>>)

\* the counter and every thread's place and local v: what semaphore_wait
\* and semaphore_post read and write
SemControl == [sem |-> sem, spc |-> spc, sv |-> sv, strap |-> strap]

\* a thread asleep in futex_wait seen as a thread whose futex_wait has not
\* returned yet
AsleepIsAtFutex(c) ==
    [c EXCEPT !.spc = [t \in SemThreads |->
                         IF c.spc[t] = "asleep" THEN "futex" ELSE c.spc[t]]]

\* one step of a thread of the semaphore built on the stubs, from a to z
SpinStep(a, z) ==
    /\ ~a.strap
    /\ \E t \in SemThreads :
        \/ /\ a.spc[t] \in {"idle", "crit"}
           /\ z = [a EXCEPT !.spc[t] = "cas", !.sv[t] = U32Of(1)]
        \/ /\ a.spc[t] = "cas"
           /\ LET r == SemCas(a.sem, a.sv[t])
              IN  z = [a EXCEPT !.sem = r.sem,
                                !.spc[t] = IF r.next = "ret" THEN "crit" ELSE r.next,
                                !.sv[t] = IF r.next = "ret" THEN U32Zero ELSE r.v]
        \/ /\ a.spc[t] = "futex"
           /\ z = [a EXCEPT !.spc[t] = "cas", !.sv[t] = U32Of(1)]
        \/ /\ a.spc[t] \in {"idle", "crit"}
           /\ z = [a EXCEPT !.sem = U32Inc(a.sem), !.sv[t] = a.sem,
                            !.strap = PostTraps(a.sem), !.spc[t] = "wake"]
        \/ /\ a.spc[t] = "wake"
           /\ z = [a EXCEPT !.spc[t] = "idle", !.sv[t] = U32Zero]

\* this step of the futex-based semaphore is no step, one step (or, for a
\* semaphore_post that wakes a sleeper, two steps) of the one built on the
\* stubs
FutexStepIsSpin ==
    LET a == AsleepIsAtFutex(SemControl)
        z == AsleepIsAtFutex(SemControl')
    IN  \/ a = z
        \/ SpinStep(a, z)
        \/ \E t \in SemThreads :
              /\ a.spc[t] = "wake"
              /\ SpinStep([a EXCEPT !.spc[t] = "idle", !.sv[t] = U32Zero], z)

\* thread t of the futex-based semaphore falls asleep in futex_wait and its
\* futex_wait returns without a wake, taken as one step
SleepThenInterrupted(t) ==
    /\ ~strap
    /\ spc[t] = "futex"
    /\ FutexSleeps(sem, sv[t])
    /\ spc' = [spc EXCEPT ![t] = "cas"]
    /\ sv' = [sv EXCEPT ![t] = U32Of(1)]
    /\ futexed' = [futexed EXCEPT ![t] = TRUE]
    /\ UNCHANGED <<sem, strap, sem0, nPost, nWaitRet, callPosts, solo, splat>>

\* C24: Spin fallback equivalence: the semaphore built on the
\* unsupported-platform stubs behaves as the futex-based one: every step of
\* either is a step (or a stutter, or two steps) of the other on the counter
\* and on the calls in progress and returned, and on both platforms the
\* counter is conserved, semaphore_wait returns only by a decrement of a
\* positive counter, semaphore_post traps exactly from INT32_MAX on, and
\* under fair scheduling a positive counter with a waiting thread leads to
\* a semaphore_wait returning.
C24_SpinFallbackEquivalence ==
    /\ [][/\ splat = "spin" =>
               \/ NextSem
               \/ \E t \in SemThreads :
                     /\ SleepThenInterrupted(t)
                     /\ UNCHANGED <<lockVars, onceVars, ringVars, bqVars, arenaVars>>
          /\ splat = "futex" => FutexStepIsSpin]_vars
    /\ [](/\ sem.hi - sem0.hi \in {-1, 0, 1}
          /\ U32Diff(sem, sem0) = nPost - nWaitRet)
    /\ [][\A t \in SemThreads :
            SemWaitReturns(t) => (sem # U32Zero /\ sem' = U32Dec(sem))]_vars
    /\ [][\A t \in SemThreads :
            SemPostAdds(t) => (strap' <=> ~U32Less(sem, INT32_MAX))]_vars
    /\ (SemWaiting # {} /\ sem # U32Zero) ~>
          (SemWaiting = {} \/ sem = U32Zero \/ strap)

\* on the unsupported platform two threads that found the counter at 0 and
\* went through the stub futex_wait have both returned after two posts
C24_Witness ==
    /\ splat = "spin"
    /\ sem0 = U32Zero
    /\ nPost = 2
    /\ nWaitRet = 2
    /\ \A t \in SemThreads : spc[t] = "crit" => futexed[t]

InitSemBoth ==
    /\ LockAt(U32Zero)
    /\ OnceInit
    /\ RingAt(U32Zero, 1)
    /\ \E s0 \in {U32Zero, U32Dec(INT32_MAX)}, p \in {"futex", "spin"} : SemAtOn(s0, p)
    /\ BQAt(U32Zero, 1)
    /\ ArenaAt(0, FALSE)

\* the threads that call the semaphore in the comparison of the platforms
SemBothThreads == 1 .. NSemThreads - 1

NextSemBoth ==
    \/ \E t \in SemBothThreads : semaphore_wait_call(t) /\ UNCHANGED <<lockVars, onceVars, ringVars, bqVars, arenaVars>>
    \/ \E t \in SemBothThreads : semaphore_wait_cas(t) /\ UNCHANGED <<lockVars, onceVars, ringVars, bqVars, arenaVars>>
    \/ \E t \in SemBothThreads : splat = "futex" /\ semaphore_wait_futex(t) /\ UNCHANGED <<lockVars, onceVars, ringVars, bqVars, arenaVars>>
    \/ \E t \in SemBothThreads : splat = "futex" /\ futex_wait_interrupted(t) /\ UNCHANGED <<lockVars, onceVars, ringVars, bqVars, arenaVars>>
    \/ \E t \in SemBothThreads : splat = "spin" /\ futex_wait_stub(t) /\ UNCHANGED <<lockVars, onceVars, ringVars, bqVars, arenaVars>>
    \/ \E t \in SemBothThreads : semaphore_post_add(t) /\ UNCHANGED <<lockVars, onceVars, ringVars, bqVars, arenaVars>>
    \/ \E t \in SemBothThreads : splat = "futex" /\ semaphore_post_wake(t) /\ UNCHANGED <<lockVars, onceVars, ringVars, bqVars, arenaVars>>
    \/ \E t \in SemBothThreads : splat = "spin" /\ futex_wake_one_stub(t) /\ UNCHANGED <<lockVars, onceVars, ringVars, bqVars, arenaVars>>

\* a step of thread t inside semaphore_wait or semaphore_post, on either
\* platform, but the return of a futex_wait without a wake
SemThreadStep(t) ==
    \/ semaphore_wait_cas(t)
    \/ splat = "futex" /\ semaphore_wait_futex(t)
    \/ splat = "spin" /\ futex_wait_stub(t)
    \/ splat = "futex" /\ semaphore_post_wake(t)
    \/ splat = "spin" /\ futex_wake_one_stub(t)

\* the semaphore on either platform, every thread inside a call scheduled fairly
FairSpecSemBoth ==
    /\ InitSemBoth
    /\ [][NextSemBoth]_vars
    /\ \A t \in SemBothThreads :
        WF_vars(SemThreadStep(t) /\ UNCHANGED <<lockVars, onceVars, ringVars, bqVars, arenaVars>>)

SpecLock == InitLock /\ [][NextLock]_vars

\* fair scheduling of the spinning threads, and every holder unlocks
FairSpecLock ==
    /\ SpecLock
    /\ \A t \in LockThreads :
        /\ WF_vars(ticket_mutex_lock_spin(t) /\ UNCHANGED <<onceVars, ringVars, semVars, bqVars, arenaVars>>)
        /\ WF_vars(ticket_mutex_unlock(t) /\ UNCHANGED <<onceVars, ringVars, semVars, bqVars, arenaVars>>)

InitArena ==
    /\ LockAt(U32Zero)
    /\ OnceInit
    /\ RingAt(U32Zero, 1)
    /\ SemAt(U32Zero)
    /\ BQAt(U32Zero, 1)
    /\ ArenaInit

\* threads that call the arena operations in any order
NextArena ==
    \/ \E t \in ArenaThreads : allocate_named_call(t) /\ UNCHANGED <<onceVars, ringVars, semVars, bqVars>>
    \/ \E t \in ArenaThreads : arena_rollback_call(t) /\ UNCHANGED <<onceVars, ringVars, semVars, bqVars>>
    \/ \E t \in ArenaThreads : arena_clear_call(t) /\ UNCHANGED <<onceVars, ringVars, semVars, bqVars>>
    \/ \E t \in ArenaThreads : arena_destroy_call(t) /\ UNCHANGED <<onceVars, ringVars, semVars, bqVars>>
    \/ \E t \in ArenaThreads : arena_lock_spin(t) /\ UNCHANGED <<onceVars, ringVars, semVars, bqVars>>
    \/ \E t \in ArenaThreads : allocate_named_fits(t) /\ UNCHANGED <<onceVars, ringVars, semVars, bqVars>>
    \/ \E t \in ArenaThreads : allocate_named_longjmp(t) /\ UNCHANGED <<onceVars, ringVars, semVars, bqVars>>
    \/ \E t \in ArenaThreads : allocate_named_die(t) /\ UNCHANGED <<onceVars, ringVars, semVars, bqVars>>
    \/ \E t \in ArenaThreads : arena_rollback_body(t) /\ UNCHANGED <<onceVars, ringVars, semVars, bqVars>>
    \/ \E t \in ArenaThreads : arena_clear_body(t) /\ UNCHANGED <<onceVars, ringVars, semVars, bqVars>>
    \/ \E t \in ArenaThreads : arena_destroy_copy(t) /\ UNCHANGED <<onceVars, ringVars, semVars, bqVars>>
    \/ \E t \in ArenaThreads : arena_destroy_store(t) /\ UNCHANGED <<onceVars, ringVars, semVars, bqVars>>
    \/ \E t \in ArenaThreads : arena_unlock(t) /\ UNCHANGED <<onceVars, ringVars, semVars, bqVars>>

SpecArena == InitArena /\ [][NextArena]_vars

====
